---- MODULE Spec2Model ----
(***************************************************************************)
(* A model of the serde_binary_adv codec: the count codec (common.rs), the *)
(* buffered Serializer / Deserializer (ser.rs, de.rs) and the streaming    *)
(* Serializer / Deserializer (stream/ser.rs, stream/de.rs).                *)
(*                                                                         *)
(* Representation.  TLC's integers are 32 bits wide, so every machine      *)
(* integer wider than a byte (usize, u16..u128, i8..i64) is a bit set: the *)
(* set of the positions of its 1 bits, position 0 the least significant.   *)
(* A byte is an integer 0..255, a byte string a sequence of bytes.  A      *)
(* Result is a record: res is "Ok", "Err" or "Panic" (an unwrap of an Err, *)
(* an index out of bounds, unimplemented!()), val the value, err the       *)
(* BinaryError, rest the input left unread.                                *)
(***************************************************************************)
EXTENDS Integers, Sequences, FiniteSets, TLC

VARIABLES
    count,        \* count codec: the count under test (a bit set)
    usize_bytes,  \* count codec: what compress_usize returned (<<>>: not yet)
    usize_res,    \* count codec: what decompress_usize returned
    t_bytes,      \* count codec: what compress returned (<<>>: not yet)
    t_res,        \* count codec: what decompress returned
    T,            \* the type of the value encoded and decoded
    test_value,   \* the value encoded
    be,           \* big_endian of the Serializer and the Deserializer
    serialized,   \* what Serializer::to_bytes returned, unwrapped
    input,        \* the bytes given to the Deserializer
    undersized,   \* input is serialized without its last byte
    deserialized, \* what Deserializer::from_bytes returned
    written,      \* stream: the sink after Serializer::write_bytes, unwrapped
    read,         \* stream: what Deserializer::read_bytes returned
    seq_len,      \* the len given to serialize_seq and serialize_map
    seq_res,      \* what serialize_seq returned
    map_res,      \* what serialize_map returned
    stream_seq_res,  \* stream: what serialize_seq returned
    stream_map_res,  \* stream: what serialize_map returned
    legacy_serialized,   \* serdebinaryadv: what to_bytes returned
    legacy_deserialized, \* serdebinaryadv: what from_bytes returned
    series_de,    \* BinarySeries: the Deserializer it borrows, and the build
    series_state, \* BinarySeries: its len and position
    series_res,   \* BinarySeries: what the last request returned
    series_log,   \* BinarySeries: the last request, and the requests so far
    cursor,       \* read cursor: the unread input of a Deserializer, or a Raw
    cursor_res,   \* read cursor: what the last call returned
    cursor_log,   \* read cursor: the last call and the cursor before it
    sink,         \* stream: a sink that may accept part of a write, or fail
    sink_res      \* stream: what write_bytes to that sink returned

countVars == <<count, usize_bytes, usize_res, t_bytes, t_res>>
codecVars == <<T, test_value, be, serialized, input, undersized,
               deserialized, written, read>>
lenVars == <<seq_len, seq_res, map_res, stream_seq_res, stream_map_res>>
legacyVars == <<legacy_serialized, legacy_deserialized>>
seriesVars == <<series_de, series_state, series_res, series_log>>
cursorVars == <<cursor, cursor_res, cursor_log>>
sinkVars == <<sink, sink_res>>
vars == <<countVars, codecVars, lenVars, legacyVars, seriesVars, cursorVars,
          sinkVars>>

----------------------------------------------------------------------------
(* Bounds of the model. *)

\* The count samples are all counts with at most MaxOnes bits set, and 2^k - 1.
MaxOnes == 2

\* The longest tail of bytes after the lead of a raw input.
MaxTail == 4

\* The largest known len given to serialize_seq and serialize_map.
MaxLen == 130

----------------------------------------------------------------------------
(* Bit sets and bytes. *)

\* Width of usize on the 64-bit targets the tests run on, and of u128.
UsizeBits == 64
U128Bits == 128

Min(a, b) == IF a < b THEN a ELSE b

Bit(s, b) == IF b \in s THEN 2 ^ b ELSE 0

\* The integer a bit set within 0..7 stands for: `as u8` of a masked value.
Byte(s) ==
    Bit(s, 0) + Bit(s, 1) + Bit(s, 2) + Bit(s, 3)
        + Bit(s, 4) + Bit(s, 5) + Bit(s, 6) + Bit(s, 7)

\* The bit set of a byte (or of any integer below 2^20).
BitsOf(n) == {b \in 0..19 : (n \div (2 ^ b)) % 2 = 1}

\* v & (2^k - 1), v >> k, and (v << k) truncated to w bits.
LowBits(v, k) == {b \in v : b < k}
Shr(v, k) == {b - k : b \in {x \in v : x >= k}}
Shl(v, k, w) == {b + k : b \in {x \in v : x + k < w}}

BitAnd(a, b) == Byte(BitsOf(a) \cap BitsOf(b))
BitOr(a, b) == Byte(BitsOf(a) \cup BitsOf(b))

----------------------------------------------------------------------------
(* Results and errors. *)

\* A BinaryError: its kind, the actual / expected numbers of
\* MissingOrInvalidFlag and InvalidLength, the <<actual, expected>> names of
\* InvalidName, and the text of a Message.
BinaryError(kind, a, e, names, msg) ==
    [kind |-> kind, actual |-> a, expected |-> e, names |-> names, msg |-> msg]
NoErr == BinaryError("none", 0, 0, <<>>, "")
InvalidLength(a, e) == BinaryError("InvalidLength", a, e, <<>>, "")
UnexpectedEndOfInput == BinaryError("UnexpectedEndOfInput", 0, 0, <<>>, "")
InvalidBytes == BinaryError("InvalidBytes", 0, 0, <<>>, "")
UnexpectedType == BinaryError("UnexpectedType", 0, 0, <<>>, "")
MissingOrInvalidFlag(a, e) == BinaryError("MissingOrInvalidFlag", a, e, <<>>, "")
InvalidName(a, e) == BinaryError("InvalidName", 0, 0, <<a, e>>, "")
Message(msg) == BinaryError("Message", 0, 0, <<>>, msg)

Ok(v, rest) == [res |-> "Ok", val |-> v, err |-> NoErr, rest |-> rest]
Err(e, rest) == [res |-> "Err", val |-> <<>>, err |-> e, rest |-> rest]
Panic(rest) == [res |-> "Panic", val |-> <<>>, err |-> NoErr, rest |-> rest]
NotYet == [res |-> "NotYet", val |-> <<>>, err |-> NoErr, rest |-> <<>>]

\* Result::unwrap: an Err becomes a panic.
unwrap(r) == IF r.res = "Err" THEN Panic(r.rest) ELSE r

\* The `?` operator, and a panic's unwinding: K runs on an Ok only.
Then(r, K(_)) == IF r.res # "Ok" THEN r ELSE K(r)

----------------------------------------------------------------------------
(* common.rs: the count codec. *)

\* The `while v > 0` loop of compress_usize: one byte per 8 bits left.
RECURSIVE compress_usize_tail(_)
compress_usize_tail(v) ==
    IF v = {} THEN <<>>
    ELSE <<Byte(LowBits(v, 8))>> \o compress_usize_tail(Shr(v, 8))

compress_usize_lt(value) ==
    IF value \subseteq 0..6 /\ value # 0..6 THEN <<Byte(value)>>
    ELSE
        LET b0 == 128 + Byte(LowBits(value, 7))
            v1 == Shr(value, 7)
            b1 == Byte(LowBits(v1, 5))
            tail == compress_usize_tail(Shr(v1, 5))
            byte_counter == Len(tail)
        IN  <<b0, BitOr(b1, (byte_counter * 32) % 256)>> \o tail

compress_usize(value) ==
    IF value \subseteq 0..6 THEN <<Byte(value)>>
    ELSE
        LET b0 == 128 + Byte(LowBits(value, 7))
            v1 == Shr(value, 7)
            b1 == Byte(LowBits(v1, 5))
            tail == compress_usize_tail(Shr(v1, 5))
            byte_counter == Len(tail)
        IN  <<b0, BitOr(b1, (byte_counter * 32) % 256)>> \o tail

\* The `for i in 0..len` loop of decompress_usize; bytes[(i + 2)] is the
\* sequence's element i + 3.
RECURSIVE decompress_usize_fold(_, _, _, _)
decompress_usize_fold(bytes, v, i, len) ==
    IF i >= len THEN v
    ELSE decompress_usize_fold(
             bytes,
             v \cup Shl(BitsOf(bytes[i + 3]), 12 + i * 8, UsizeBits),
             i + 1, len)

\* The mutant of decompress_usize: the bytes are not counted against the
\* length field; a byte that is not there reads as zero.
decompress_usize_unchecked(bytes) ==
    IF Len(bytes) = 0 THEN Err(InvalidLength(0, 8), <<>>)
    ELSE IF BitAnd(bytes[1], 128) = 0 THEN Ok(BitsOf(bytes[1]), <<>>)
    ELSE IF Len(bytes) < 2 THEN Err(InvalidLength(Len(bytes), 8), <<>>)
    ELSE Ok(decompress_usize_fold(
                bytes \o [i \in 1..8 |-> 0],
                BitsOf(BitAnd(bytes[1], 127))
                    \cup Shl(BitsOf(BitAnd(bytes[2], 31)), 7, UsizeBits),
                0, BitAnd(bytes[2], 224) \div 32),
            <<>>)

decompress_usize(bytes) ==
    IF Len(bytes) = 0 THEN Err(InvalidLength(0, 8), <<>>)
    ELSE IF BitAnd(bytes[1], 128) = 0 THEN Ok(BitsOf(bytes[1]), <<>>)
    ELSE IF Len(bytes) < 2 THEN Err(InvalidLength(Len(bytes), 8), <<>>)
    ELSE
        LET len == BitAnd(bytes[2], 224) \div 32
            v == BitsOf(BitAnd(bytes[1], 127))
                     \cup Shl(BitsOf(BitAnd(bytes[2], 31)), 7, UsizeBits)
        IN  IF Len(bytes) < len + 2
            THEN Err(InvalidLength(Len(bytes), 8), <<>>)
            ELSE IF len = 0 THEN Ok(v, <<>>)
            ELSE Ok(decompress_usize_fold(bytes, v, 0, len), <<>>)

\* compress: BIT_7 is 0b1000000, the value 64.
BIT_7 == 64

\* The first tail loop of compress: `while v > 0 && byte_counter < 7`.
\* Returns the bytes pushed and the v left.
RECURSIVE compress_tail7(_, _)
compress_tail7(v, byte_counter) ==
    IF v = {} \/ byte_counter >= 7 THEN [out |-> <<>>, v |-> v]
    ELSE LET r == compress_tail7(Shr(v, 8), byte_counter + 1)
         IN  [out |-> <<Byte(LowBits(v, 8))>> \o r.out, v |-> r.v]

compress(value) ==
    IF value \subseteq 0..6 THEN <<Byte(LowBits(value, 7))>>
    ELSE
        LET b0 == BitOr(BIT_7, Byte(LowBits(value, 7)))
            v1 == Shr(value, 7)
            b1 == Byte(LowBits(v1, 5))
            t7 == compress_tail7(Shr(v1, 5), 0)
            \* byte 9: `if v > 0`
            nine == IF t7.v # {} THEN <<Byte(LowBits(t7.v, 4))>> ELSE <<>>
            v3 == IF t7.v # {} THEN Shr(t7.v, 4) ELSE t7.v
            byte_counter == Len(t7.out) + Len(nine)
            \* the remaining bytes: `while v > 0`
            more == compress_usize_tail(v3)
            res == <<b0, BitOr(b1, (byte_counter * 32) % 256)>>
                       \o t7.out \o nine \o more
        IN  IF Len(more) > 0
            THEN [res EXCEPT ![9] = BitAnd(res[9], (Len(more) * 16) % 256)]
            ELSE res

\* The two `for i in a..b` loops of decompress: v = v | bytes[i + 2] << shl.
\* A read past the end of bytes panics; so does a shift by 128 or more.
RECURSIVE decompress_fold(_, _, _, _, _)
decompress_fold(bytes, acc, i, hi, shl) ==
    IF i >= hi THEN [panic |-> FALSE, v |-> acc, shl |-> shl]
    ELSE IF i + 3 > Len(bytes) \/ shl >= U128Bits
         THEN [panic |-> TRUE, v |-> acc, shl |-> shl]
    ELSE decompress_fold(
             bytes, acc \cup Shl(BitsOf(bytes[i + 3]), shl, U128Bits),
             i + 1, hi, shl + 8)

decompress(bytes) ==
    IF Len(bytes) = 0 THEN Err(InvalidLength(0, 8), <<>>)
    ELSE IF BitAnd(bytes[1], BIT_7) = 0 THEN Ok(BitsOf(bytes[1]), <<>>)
    ELSE IF Len(bytes) < 2 THEN Panic(<<>>)          \* bytes[1]
    ELSE
        LET k == BitAnd(bytes[2], 224) \div 32
        IN  IF k = 7 /\ Len(bytes) < 9 THEN Panic(<<>>)   \* bytes[8]
            ELSE
            LET total_len ==
                    2 + k + (IF k = 7 THEN BitAnd(bytes[9], 240) \div 16 ELSE 0)
                v0 == BitsOf(BitAnd(bytes[1], 127))
                          \cup Shl(BitsOf(BitAnd(bytes[2], 31)), 7, U128Bits)
                f1 == IF total_len > 2
                      THEN decompress_fold(bytes, v0, 2, Min(total_len, 7), 12)
                      ELSE [panic |-> FALSE, v |-> v0, shl |-> 12]
                v2 == IF total_len > 8
                      THEN f1.v \cup Shl(BitsOf(BitAnd(bytes[9], 15)), f1.shl, U128Bits)
                      ELSE f1.v
                shl2 == IF total_len > 8 THEN f1.shl + 4 ELSE f1.shl
                f2 == IF total_len > 9
                      THEN decompress_fold(bytes, v2, 9, total_len, shl2)
                      ELSE [panic |-> FALSE, v |-> v2, shl |-> shl2]
            IN  IF Len(bytes) < total_len
                THEN Err(InvalidLength(Len(bytes), total_len), <<>>)
                ELSE IF f1.panic \/ f2.panic THEN Panic(<<>>)
                ELSE Ok(f2.v, <<>>)

----------------------------------------------------------------------------
(* UTF-8, as char::encode_utf8, String::from_utf8 and str::chars do it. *)

\* char::encode_utf8 of the scalar value c.
encode_utf8(c) ==
    IF c < 128 THEN <<c>>
    ELSE IF c < 2048 THEN <<192 + (c \div 64), 128 + (c % 64)>>
    ELSE IF c < 65536
         THEN <<224 + (c \div 4096), 128 + ((c \div 64) % 64), 128 + (c % 64)>>
    ELSE <<240 + (c \div 262144), 128 + ((c \div 4096) % 64),
           128 + ((c \div 64) % 64), 128 + (c % 64)>>

IsCont(b) == b \in 128..191

\* The length of the sequence a leading byte opens in well-formed UTF-8
\* (0: the byte opens none).
Utf8Width(b) ==
    IF b < 128 THEN 1
    ELSE IF b \in 194..223 THEN 2
    ELSE IF b \in 224..239 THEN 3
    ELSE IF b \in 240..244 THEN 4
    ELSE 0

\* The second byte's range depends on the first (no overlong forms, no
\* surrogates, nothing above U+10FFFF).
SecondOk(b0, b1) ==
    IF b0 = 224 THEN b1 \in 160..191
    ELSE IF b0 = 237 THEN b1 \in 128..159
    ELSE IF b0 = 240 THEN b1 \in 144..191
    ELSE IF b0 = 244 THEN b1 \in 128..143
    ELSE IsCont(b1)

ValidAt(bytes, i) ==
    LET w == Utf8Width(bytes[i])
    IN  /\ w > 0
        /\ i + w - 1 <= Len(bytes)
        /\ w >= 2 => SecondOk(bytes[i], bytes[i + 1])
        /\ \A j \in (i + 2)..(i + w - 1) : IsCont(bytes[j])
        /\ i + w <= Len(bytes) => ~IsCont(bytes[i + w])

\* Whether String::from_utf8(bytes) is Ok.
from_utf8_ok(bytes) ==
    \/ Len(bytes) = 0
    \/ /\ ~IsCont(bytes[1])
       /\ \A i \in 1..Len(bytes) : ~IsCont(bytes[i]) => ValidAt(bytes, i)

\* s.chars().next() of a non-empty well-formed string: its first scalar.
first_char(bytes) ==
    LET w == Utf8Width(bytes[1])
    IN  IF w = 1 THEN bytes[1]
        ELSE IF w = 2 THEN (bytes[1] - 192) * 64 + (bytes[2] - 128)
        ELSE IF w = 3
             THEN (bytes[1] - 224) * 4096 + (bytes[2] - 128) * 64
                      + (bytes[3] - 128)
        ELSE (bytes[1] - 240) * 262144 + (bytes[2] - 128) * 4096
                 + (bytes[3] - 128) * 64 + (bytes[4] - 128)

----------------------------------------------------------------------------
(* Fixed-width numbers: to_le_bytes / to_be_bytes / from_le_bytes /        *)
(* from_be_bytes of a w-byte integer given as a bit set.                   *)

Reverse(s) == [i \in 1..Len(s) |-> s[Len(s) + 1 - i]]

to_le_bytes(bits, w) == [i \in 1..w |-> Byte(Shr(LowBits(bits, 8 * i), 8 * (i - 1)))]
to_be_bytes(bits, w) == Reverse(to_le_bytes(bits, w))

from_le_bytes(bytes) ==
    {8 * (i - 1) + b : i \in 1..Len(bytes), b \in 0..7} \cap
        UNION {{8 * (i - 1) + b : b \in BitsOf(bytes[i])} : i \in 1..Len(bytes)}
from_be_bytes(bytes) == from_le_bytes(Reverse(bytes))

\* `x as usize` of a count or an index, for indexing and comparing with
\* lengths.  No input of the model is BigCount bytes long, so a count of
\* BigCount or more is kept as BigCount: it compares with every length and
\* position of the model as the count itself does.
BigCount == 1048576
RECURSIVE SumBits(_)
SumBits(s) ==
    IF s = {} THEN 0
    ELSE LET b == CHOOSE x \in s : TRUE IN 2 ^ b + SumBits(s \ {b})
ToNat(bits) == IF bits \subseteq 0..19 THEN SumBits(bits) ELSE BigCount

----------------------------------------------------------------------------
(* common.rs: flags. *)

NONE == 0
SOME == 255
UNIT_VARIANT == 254
NONUNIT_VARIANT == 253
STRUCT_VARIANT == 252
\* flags::STRUCT is imported by ser.rs and de.rs; common.rs as given does
\* not define it.  Its value is the documented one.
STRUCT == 253

----------------------------------------------------------------------------
(* The types and values of the tests (serde_binary_adv.rs, stream.rs):     *)
(* what the serde derive of each type makes of it.  A type is named; its   *)
(* definition gives its shape k, its name on the wire, the types of its    *)
(* elements or fields, and an enum's variants.                             *)

\* The tests' string values, as UTF-8.
Str ==
    [test |-> <<116, 101, 115, 116>>,
     a |-> <<97>>,
     b |-> <<98>>,
     eth |-> <<195, 176>>]

\* The names of the tests' types, variants and fields, as UTF-8.
Name ==
    [Test |-> <<84, 101, 115, 116>>,
     TestEnum |-> <<84, 101, 115, 116, 69, 110, 117, 109>>,
     NewTypeVariant |-> <<78, 101, 119, 84, 121, 112, 101, 86, 97, 114, 105, 97, 110, 116>>,
     StructVariant |-> <<83, 116, 114, 117, 99, 116, 86, 97, 114, 105, 97, 110, 116>>,
     TupleVariant |-> <<84, 117, 112, 108, 101, 86, 97, 114, 105, 97, 110, 116>>,
     UnitVariant |-> <<85, 110, 105, 116, 86, 97, 114, 105, 97, 110, 116>>,
     Unit |-> <<85, 110, 105, 116>>,
     NewType |-> <<78, 101, 119, 84, 121, 112, 101>>,
     TupleStruct |-> <<84, 117, 112, 108, 101, 83, 116, 114, 117, 99, 116>>,
     byte |-> <<98, 121, 116, 101>>,
     string |-> <<115, 116, 114, 105, 110, 103>>]

Type(k, name, elems, fields, variants) ==
    [k |-> k, name |-> name, elems |-> elems, fields |-> fields,
     variants |-> variants]
Prim(k) == Type(k, <<>>, <<>>, <<>>, <<>>)
Variant(name, vk, elems, fields) ==
    [name |-> name, vk |-> vk, elems |-> elems, fields |-> fields]

\* The byte width of the fixed-width integer types.
NumWidth(k) ==
    CASE k \in {"u8", "i8"} -> 1
      [] k \in {"u16", "i16"} -> 2
      [] k \in {"u32", "i32"} -> 4
      [] k \in {"u64", "i64"} -> 8
      [] k \in {"u128", "i128"} -> 16

NumKinds == {"u8", "u16", "u32", "u64", "i8", "i16", "i32", "i64"}
PrimKinds == NumKinds \cup {"bool", "char", "String", "unit"}

\* The 128-bit integer types: the streaming Serializer and Deserializer
\* have operations for them, the buffered ones have serde's.
WideKinds == {"u128", "i128"}

TestEnumVariants ==
    << Variant(Name.NewTypeVariant, "newtype", <<"u8">>, <<>>),
       Variant(Name.StructVariant, "struct", <<"u8", "u8">>, <<Str.a, Str.b>>),
       Variant(Name.TupleVariant, "tuple", <<"u8", "u8", "u8">>, <<>>),
       Variant(Name.UnitVariant, "unit", <<>>, <<>>) >>

TypeDef(ty) ==
    CASE ty \in PrimKinds \cup WideKinds -> Prim(ty)
      [] ty = "Option<u64>" -> Type("option", <<>>, <<"u64">>, <<>>, <<>>)
      [] ty = "Option<i32>" -> Type("option", <<>>, <<"i32">>, <<>>, <<>>)
      [] ty = "Unit" -> Type("unit_struct", Name.Unit, <<>>, <<>>, <<>>)
      [] ty = "NewType" -> Type("newtype_struct", Name.NewType, <<"u8">>, <<>>, <<>>)
      [] ty = "Vec<i32>" -> Type("seq", <<>>, <<"i32">>, <<>>, <<>>)
      [] ty = "[u8; 3]" -> Type("tuple", <<>>, <<"u8", "u8", "u8">>, <<>>, <<>>)
      [] ty = "(char, i32, u8)" ->
             Type("tuple", <<>>, <<"char", "i32", "u8">>, <<>>, <<>>)
      [] ty = "TupleStruct" ->
             Type("tuple_struct", Name.TupleStruct, <<"u8", "u8", "u8">>, <<>>, <<>>)
      [] ty = "HashMap<String, char>" ->
             Type("map", <<>>, <<"String", "char">>, <<>>, <<>>)
      [] ty = "Test" ->
             Type("struct", Name.Test, <<"u8", "String">>,
                  <<Name.byte, Name.string>>, <<>>)
      [] ty = "TestEnum" ->
             Type("enum", Name.TestEnum, <<>>, <<>>, TestEnumVariants)

TypeNames ==
    PrimKinds \cup
    {"Option<u64>", "Option<i32>", "Unit", "NewType", "Vec<i32>", "[u8; 3]",
     "(char, i32, u8)", "TupleStruct", "HashMap<String, char>", "Test",
     "TestEnum"}

\* Values.  A bool is a BOOLEAN, a fixed-width integer a bit set, a char
\* its scalar value, a String its bytes, an Option <<>> or <<x>>, a unit
\* <<>>, a newtype struct <<x>>, a sequence, tuple, tuple struct or struct
\* the sequence of its elements or fields, a map the sequence of its
\* <<key, value>> entries in the order its iterator gives them, an enum
\* value the index of its variant and the variant's fields.

\* 0, 0x41, the maximum, the top bit alone, and the bytes 01 02 .. w.
NumSamples(w) ==
    {{}, {0, 6}, 0..(8 * w - 1), {8 * w - 1}, from_le_bytes([i \in 1..w |-> i])}

\* Scalars at both ends of each UTF-8 length, and the tests' four.
CharSamples ==
    {0, 97, 127, 128, 240, 2047, 2048, 3080, 55295, 57344, 65535, 65536,
     128566, 1114111}

\* The length of the longest String sample: its count takes two bytes.
LongLen == 128
StringSamples ==
    {<<>>, Str.a, Str.test, Str.eth,
     [i \in 1..(LongLen - 1) |-> 97], [i \in 1..LongLen |-> 97]}

\* The length of the longest Vec sample.
MaxSeqLen == 3
U8Pair == {{0, 6}, {1, 6}}
EnumValue(idx, fields) == [idx |-> idx, fields |-> fields]

ValuesOf(ty) ==
    CASE ty = "bool" -> BOOLEAN
      [] ty \in NumKinds -> NumSamples(NumWidth(ty))
      [] ty \in WideKinds ->
             NumSamples(NumWidth(ty)) \cup {{8 * i} : i \in 0..15}
      [] ty = "char" -> CharSamples
      [] ty = "String" -> StringSamples
      [] ty = "unit" -> {<<>>}
      [] ty = "Option<u64>" -> {<<>>} \cup {<<x>> : x \in NumSamples(8)}
      [] ty = "Option<i32>" -> {<<>>} \cup {<<x>> : x \in NumSamples(4)}
      [] ty = "Unit" -> {<<>>}
      [] ty = "NewType" -> {<<x>> : x \in NumSamples(1)}
      [] ty = "Vec<i32>" ->
             UNION {[1..n -> {{0, 6}, {1, 6, 31}}] : n \in 0..MaxSeqLen}
      [] ty = "[u8; 3]" -> [1..3 -> U8Pair]
      [] ty = "(char, i32, u8)" ->
             {<<c, i, u>> : c \in {97, 128566}, i \in {{4}, 0..31}, u \in U8Pair}
      [] ty = "TupleStruct" -> [1..3 -> U8Pair]
      [] ty = "HashMap<String, char>" ->
             {<<>>, << <<Str.a, 97>> >>, << <<Str.a, 97>>, <<Str.b, 98>> >>,
              << <<Str.b, 98>>, <<Str.a, 97>> >>}
      [] ty = "Test" -> {<<b, s>> : b \in U8Pair, s \in {<<>>, Str.test}}
      [] ty = "TestEnum" ->
             {EnumValue(0, <<x>>) : x \in U8Pair}
                 \cup {EnumValue(1, <<x, y>>) : x, y \in U8Pair}
                 \cup {EnumValue(2, s) : s \in [1..3 -> U8Pair]}
                 \cup {EnumValue(3, <<>>)}

\* None and Some(n), for the len of serialize_seq and serialize_map.
None == <<>>
Some(n) == <<n>>

----------------------------------------------------------------------------
(* ser.rs: the buffered Serializer.  Every operation takes the output so   *)
(* far and gives a Result whose val is the output after it.                *)

\* The mutant of serialize_num: the byte order is ignored.
serialize_num_le_only(output, bits, w, big_endian) ==
    Ok(output \o to_le_bytes(bits, w), <<>>)

serialize_num(output, bits, w, big_endian) ==
    IF big_endian
    THEN Ok(output \o to_be_bytes(bits, w), <<>>)
    ELSE Ok(output \o to_le_bytes(bits, w), <<>>)

\* The mutant of serialize_vec: the vector written as one number, its bytes
\* in reverse when big_endian.
serialize_vec_as_num(output, v, big_endian) ==
    IF big_endian THEN Ok(output \o Reverse(v), <<>>) ELSE Ok(output \o v, <<>>)

\* serialize_vec of bytes: serialize_num of each item, one byte wide.
serialize_vec(output, v, big_endian) ==
    Ok(output \o [i \in 1..Len(v) |->
                     serialize_num(<<>>, BitsOf(v[i]), 1, big_endian).val[1]],
       <<>>)

serialize_u8(output, v, big_endian) == serialize_num(output, BitsOf(v), 1, big_endian)
serialize_u32(output, v, big_endian) == serialize_num(output, BitsOf(v), 4, big_endian)

serialize_bool(output, v, big_endian) ==
    serialize_u8(output, IF v THEN 1 ELSE 0, big_endian)

serialize_char(output, v, big_endian) ==
    serialize_vec(output, encode_utf8(v), big_endian)

serialize_str(output, v, big_endian) ==
    LET r == unwrap(serialize_vec(output, compress_usize(BitsOf(Len(v))), big_endian))
    IN  serialize_vec(r.val, v, big_endian)

serialize_none(output, big_endian) == serialize_u8(output, NONE, big_endian)

\* serialize_some up to value.serialize(self).
serialize_some_flag(output, big_endian) ==
    unwrap(serialize_u8(output, SOME, big_endian))

serialize_unit(output) == Ok(output, <<>>)

\* The mutant of serialize_unit_variant: the index without the flag.
serialize_unit_variant_bare(output, variant_index, big_endian) ==
    serialize_u32(output, variant_index, big_endian)

serialize_unit_variant(output, variant_index, big_endian) ==
    LET r == unwrap(serialize_u8(output, UNIT_VARIANT, big_endian))
    IN  serialize_u32(r.val, variant_index, big_endian)

\* serialize_newtype_variant up to value.serialize(self).
serialize_newtype_variant_head(output, variant_index, big_endian) ==
    unwrap(serialize_u32(output, variant_index, big_endian))

serialize_seq(output, len, big_endian) ==
    IF len # None
    THEN unwrap(serialize_vec(output, compress_usize(BitsOf(len[1])), big_endian))
    ELSE Panic(<<>>)      \* unimplemented!()


serialize_tuple_variant(output, variant_index, len, big_endian) ==
    LET r == unwrap(serialize_u32(output, variant_index, big_endian))
    IN  unwrap(serialize_vec(r.val, compress_usize(BitsOf(len)), big_endian))

serialize_map(output, len, big_endian) ==
    IF len # None
    THEN unwrap(serialize_vec(output, compress_usize(BitsOf(len[1])), big_endian))
    ELSE Panic(<<>>)      \* unimplemented!()

\* The mutant of serialize_struct: the count alone, neither marker nor name.
serialize_struct_nameless(output, name, len, big_endian) ==
    unwrap(serialize_vec(output, compress_usize(BitsOf(len)), big_endian))

serialize_struct(output, name, len, big_endian) ==
    LET r == unwrap(serialize_str(output \o <<STRUCT>>, name, big_endian))
    IN  unwrap(serialize_vec(r.val, compress_usize(BitsOf(len)), big_endian))

serialize_struct_variant(output, name, variant_index, len, big_endian) ==
    LET r1 == unwrap(serialize_str(output \o <<STRUCT_VARIANT>>, name, big_endian))
        r2 == unwrap(serialize_u32(r1.val, variant_index, big_endian))
    IN  unwrap(serialize_vec(r2.val, compress_usize(BitsOf(len)), big_endian))

\* serialize_i128 and serialize_u128, which impl ser::Serializer for
\* &mut Serializer leaves to serde: Err(Error::custom(..)), nothing written.
serialize_i128(output, k) ==
    Err(Message(IF k = "u128" THEN "u128 is not supported"
                ELSE "i128 is not supported"),
        output)

\* T::serialize(&mut serializer) of the tests' types: the operation the
\* type's Serialize impl calls, then serialize_element / serialize_field /
\* serialize_key / serialize_value of each part (value.serialize(&mut
\* **self)), then end (a no-op).
RECURSIVE Serialize(_, _, _, _)
RECURSIVE SerializeEach(_, _, _, _)

\* The parts of a composite in order: types[i] is the type of vals[i].
SerializeEach(types, vals, r, big_endian) ==
    IF r.res # "Ok" \/ vals = <<>> THEN r
    ELSE SerializeEach(Tail(types), Tail(vals),
                       Serialize(Head(types), Head(vals), r.val, big_endian),
                       big_endian)

\* A map's entries flattened to key, value, key, value, ...
Flatten(entries) ==
    [i \in 1..(2 * Len(entries)) |-> entries[(i + 1) \div 2][2 - (i % 2)]]
Repeat(types, n) ==
    [i \in 1..(n * Len(types)) |-> types[((i - 1) % Len(types)) + 1]]

Serialize(ty, v, output, big_endian) ==
    LET t == TypeDef(ty)
    IN  CASE t.k = "bool" -> serialize_bool(output, v, big_endian)
          [] t.k \in NumKinds -> serialize_num(output, v, NumWidth(t.k), big_endian)
          [] t.k \in WideKinds -> serialize_i128(output, t.k)
          [] t.k = "char" -> serialize_char(output, v, big_endian)
          [] t.k = "String" -> serialize_str(output, v, big_endian)
          \* serialize_unit_struct is Ok(()) too
          [] t.k \in {"unit", "unit_struct"} -> serialize_unit(output)
          [] t.k = "option" ->
                 IF v = <<>> THEN serialize_none(output, big_endian)
                 ELSE SerializeEach(t.elems, v,
                                    serialize_some_flag(output, big_endian),
                                    big_endian)
          [] t.k = "newtype_struct" ->
                 Serialize(t.elems[1], v[1], output, big_endian)
          [] t.k = "seq" ->
                 SerializeEach(Repeat(t.elems, Len(v)), v,
                               serialize_seq(output, Some(Len(v)), big_endian),
                               big_endian)
          \* serialize_tuple and serialize_tuple_struct are serialize_seq(Some(len))
          [] t.k \in {"tuple", "tuple_struct"} ->
                 SerializeEach(
                     t.elems, v,
                     serialize_seq(output, Some(Len(v)), big_endian),
                     big_endian)
          [] t.k = "map" ->
                 SerializeEach(Repeat(t.elems, Len(v)), Flatten(v),
                               serialize_map(output, Some(Len(v)), big_endian),
                               big_endian)
          [] t.k = "struct" ->
                 SerializeEach(t.elems, v,
                               serialize_struct(output, t.name, Len(v), big_endian),
                               big_endian)
          [] t.k = "enum" ->
                 LET var == t.variants[v.idx + 1]
                     head ==
                         CASE var.vk = "unit" ->
                                  serialize_unit_variant(output, v.idx, big_endian)
                           [] var.vk = "newtype" ->
                                  serialize_newtype_variant_head(
                                      output, v.idx, big_endian)
                           [] var.vk = "tuple" ->
                                  serialize_tuple_variant(
                                      output, v.idx, Len(v.fields), big_endian)
                           [] var.vk = "struct" ->
                                  serialize_struct_variant(
                                      output, t.name, v.idx, Len(v.fields),
                                      big_endian)
                 IN  SerializeEach(var.elems, v.fields, head, big_endian)

\* Serializer::to_bytes.
to_bytes(ty, value, big_endian) == Serialize(ty, value, <<>>, big_endian)

----------------------------------------------------------------------------
(* de.rs: the buffered Deserializer.  data is the input not yet read; a    *)
(* Result's rest is what is left of it afterwards.                         *)

peek(data) ==
    IF Len(data) = 0 THEN Err(UnexpectedEndOfInput, data)
    ELSE Ok(data[1], data)

next(data) ==
    IF Len(data) = 0 THEN Err(UnexpectedEndOfInput, data)
    ELSE Ok(data[1], Tail(data))

\* The mutant of take: the bytes returned are left in the input.
take_kept(data, len) ==
    IF Len(data) < len THEN Err(UnexpectedEndOfInput, data)
    ELSE Ok(SubSeq(data, 1, len), data)

take(data, len) ==
    IF Len(data) < len THEN Err(UnexpectedEndOfInput, data)
    ELSE Ok(SubSeq(data, 1, len), SubSeq(data, len + 1, Len(data)))

\* impl_next_uxx!(next_u32, u32): the index as a bit set.
next_u32(data, big_endian) ==
    Then(unwrap(take(data, 4)), LAMBDA r :
        Ok(IF big_endian THEN from_be_bytes(r.val) ELSE from_le_bytes(r.val),
           r.rest))

\* The `for _ in 0..extra_bytes` loop of next_usize: bytes.push(self.next()
\* .unwrap()).  val is the bytes collected.
RECURSIVE next_usize_extra(_, _, _)
next_usize_extra(data, n, bytes) ==
    IF n = 0 THEN Ok(bytes, data)
    ELSE Then(unwrap(next(data)), LAMBDA r :
             next_usize_extra(r.rest, n - 1, Append(bytes, r.val)))

\* next_usize: the count as a bit set.
next_usize(data) ==
    Then(unwrap(next(data)), LAMBDA r0 :
    Then(IF BitAnd(r0.val, 128) = 0 THEN Ok(<<r0.val>>, r0.rest)
         ELSE Then(unwrap(next(r0.rest)), LAMBDA r1 :
                  next_usize_extra(r1.rest, BitAnd(r1.val, 224) \div 32,
                                   <<r0.val, r1.val>>)),
         LAMBDA rx :
    Then([unwrap(decompress_usize(rx.val)) EXCEPT !.rest = rx.rest], LAMBDA d :
        d)))

\* take_string: String::from_utf8(self.take(size).unwrap()).unwrap().
take_string(data) ==
    Then(unwrap(next_usize(data)), LAMBDA size :
    Then(unwrap(take(size.rest, ToNat(size.val))), LAMBDA r :
        IF ~from_utf8_ok(r.val) THEN Panic(r.rest) ELSE r))

\* impl_deserialize_num! and deserialize_u8 / deserialize_i8: the value as
\* a bit set (`as i8` keeps the bits).
deserialize_num(k, data, big_endian) ==
    IF k \in {"u8", "i8"}
    THEN Then(unwrap(next(data)), LAMBDA r : Ok(BitsOf(r.val), r.rest))
    ELSE Then(unwrap(take(data, NumWidth(k))), LAMBDA r :
             Ok(IF big_endian THEN from_be_bytes(r.val)
                ELSE from_le_bytes(r.val),
                r.rest))

deserialize_bool(data) ==
    Then(unwrap(next(data)), LAMBDA r : Ok(r.val # 0, r.rest))

\* The arm of deserialize_char that takes len bytes:
\* String::from_utf8(self.take(len).unwrap()).unwrap().chars().next().unwrap().
deserialize_char_arm(data, len) ==
    Then(unwrap(take(data, len)), LAMBDA r :
        IF ~from_utf8_ok(r.val) \/ Len(r.val) = 0 THEN Panic(r.rest)
        ELSE Ok(first_char(r.val), r.rest))

\* The length deserialize_char takes for a lead byte (0: InvalidBytes).
char_len(lead) ==
    IF lead \in 0..127 THEN 1
    ELSE IF lead \in 192..223 THEN 2
    ELSE IF lead \in 224..239 THEN 3
    ELSE IF lead \in 240..255 THEN 4
    ELSE 0

\* The mutant of deserialize_char: 0x80..=0xBF is taken for a two-byte lead.
deserialize_char_wide_lead(data) ==
    Then(unwrap(peek(data)), LAMBDA p :
        deserialize_char_arm(data, IF p.val \in 128..191 THEN 2
                                   ELSE char_len(p.val)))

deserialize_char(data) ==
    Then(unwrap(peek(data)), LAMBDA p :
        IF char_len(p.val) = 0 THEN Err(InvalidBytes, data)
        ELSE deserialize_char_arm(data, char_len(p.val)))

deserialize_unit(data) == Ok(<<>>, data)

\* BinarySeries::new.
BinarySeries(len) == [len |-> len, position |-> 0]

\* Where name is in names (0: nowhere): what the derived identifier visitor
\* does with visit_str.
IndexOf(names, name) ==
    IF \E i \in 1..Len(names) : names[i] = name
    THEN CHOOSE i \in 1..Len(names) : names[i] = name
    ELSE 0

\* HashMap::insert.
MapInsert(entries, k, v) ==
    IF \E i \in 1..Len(entries) : entries[i][1] = k
    THEN [i \in 1..Len(entries) |->
              IF entries[i][1] = k THEN <<k, v>> ELSE entries[i]]
    ELSE Append(entries, <<k, v>>)

RECURSIVE Deserialize(_, _, _)
RECURSIVE stream_Deserialize(_, _, _)

\* BinarySeries and serde's visitors are the same code over either
\* Deserializer: seed.deserialize(&mut *self.de), streaming or buffered.
seed_deserialize(streaming, ty, data, big_endian) ==
    IF streaming THEN stream_Deserialize(ty, data, big_endian)
    ELSE Deserialize(ty, data, big_endian)

\* SeqAccess::next_element_seed and MapAccess::next_key_seed (the same
\* code): self.position += 1, then Ok(None), Err(InvalidLength) or
\* seed.deserialize(..).map(Some).  series is the BinarySeries before.
next_element_seed(streaming, series, ty, data, big_endian) ==
    IF series.position + 1 = series.len + 1 THEN Ok(None, data)
    ELSE IF series.position + 1 > series.len
    THEN Err(InvalidLength(series.position + 1, series.len), data)
    ELSE Then(seed_deserialize(streaming, ty, data, big_endian), LAMBDA d :
             Ok(Some(d.val), d.rest))

next_key_seed(streaming, series, ty, data, big_endian) ==
    next_element_seed(streaming, series, ty, data, big_endian)

\* The BinarySeries after next_element_seed or next_key_seed.
advance(series) == [series EXCEPT !.position = series.position + 1]

\* MapAccess::next_value_seed.
next_value_seed(streaming, series, ty, data, big_endian) ==
    seed_deserialize(streaming, ty, data, big_endian)

\* serde's visitor of Vec<T>: next_element until None.
RECURSIVE visit_seq_vec(_, _, _, _, _, _)
visit_seq_vec(streaming, series, ty, data, big_endian, acc) ==
    Then(next_element_seed(streaming, series, ty, data, big_endian), LAMBDA s :
        IF Len(s.val) = 0 THEN Ok(acc, s.rest)
        ELSE visit_seq_vec(streaming, advance(series), ty, s.rest, big_endian,
                           Append(acc, s.val[1])))

\* serde's visitor of a tuple, an array, and the derived visit_seq of a
\* tuple struct, a struct and a tuple variant: one next_element per element
\* of the type; None is Error::invalid_length, a Message.
RECURSIVE visit_seq_fixed(_, _, _, _, _, _)
visit_seq_fixed(streaming, series, types, data, big_endian, acc) ==
    IF types = <<>> THEN Ok(acc, data)
    ELSE Then(next_element_seed(streaming, series, Head(types), data, big_endian),
              LAMBDA s :
             IF Len(s.val) = 0 THEN Err(Message("invalid length"), s.rest)
             ELSE visit_seq_fixed(streaming, advance(series), Tail(types),
                                  s.rest, big_endian, Append(acc, s.val[1])))

\* serde's visitor of HashMap<K, V>: next_key until None, next_value after
\* each key.
RECURSIVE visit_map_hashmap(_, _, _, _, _, _)
visit_map_hashmap(streaming, series, types, data, big_endian, acc) ==
    Then(next_key_seed(streaming, series, types[1], data, big_endian), LAMBDA k :
        IF Len(k.val) = 0 THEN Ok(acc, k.rest)
        ELSE Then(next_value_seed(streaming, advance(series), types[2], k.rest,
                                  big_endian),
                  LAMBDA v :
                 visit_map_hashmap(streaming, advance(series), types, v.rest,
                                   big_endian, MapInsert(acc, k.val[1], v.val))))

\* deserialize_identifier: visitor.visit_string(self.take_string()); the
\* derived identifier visitor takes the string for one of names (val: its
\* index from 1; 0 with ignore, for a struct's field names, when it is none
\* of them) or fails with Error::unknown_variant, a Message.
deserialize_identifier(names, ignore, data) ==
    Then(take_string(data), LAMBDA s :
        IF IndexOf(names, s.val) = 0 /\ ~ignore
        THEN Err(Message("unknown variant"), s.rest)
        ELSE Ok(IndexOf(names, s.val), s.rest))

\* The derived visit_map of a struct variant: a key is a field's name or
\* ignored; a field met twice is Error::duplicate_field, an ignored key's
\* value goes to deserialize_ignored_any (unimplemented!()), a field never
\* met is Error::missing_field.  acc maps each field met to <<value>>.
RECURSIVE visit_map_struct(_, _, _, _, _, _)
visit_map_struct(series, fields, types, data, big_endian, acc) ==
    IF series.position + 1 = series.len + 1
    THEN IF \A i \in 1..Len(fields) : Len(acc[i]) = 1
         THEN Ok([i \in 1..Len(fields) |-> acc[i][1]], data)
         ELSE Err(Message("missing field"), data)
    ELSE IF series.position + 1 > series.len
    THEN Err(InvalidLength(series.position + 1, series.len), data)
    ELSE Then(deserialize_identifier(fields, TRUE, data), LAMBDA k :
             IF k.val = 0 THEN Panic(k.rest)
             ELSE IF Len(acc[k.val]) = 1
             THEN Err(Message("duplicate field"), k.rest)
             ELSE Then(next_value_seed(FALSE, advance(series), types[k.val],
                                       k.rest, big_endian),
                       LAMBDA v :
                      visit_map_struct(advance(series), fields, types, v.rest,
                                       big_endian,
                                       [acc EXCEPT ![k.val] = <<v.val>>])))

\* deserialize_seq with the visitor of a Vec (types of one element) or of
\* a fixed number of elements.
deserialize_seq(vec, types, data, big_endian) ==
    Then(unwrap(next_usize(data)), LAMBDA len :
        IF vec
        THEN visit_seq_vec(FALSE, BinarySeries(ToNat(len.val)), types[1],
                           len.rest, big_endian, <<>>)
        ELSE visit_seq_fixed(FALSE, BinarySeries(ToNat(len.val)), types,
                             len.rest, big_endian, <<>>))

deserialize_map(types, data, big_endian) ==
    Then(unwrap(next_usize(data)), LAMBDA len :
        visit_map_hashmap(FALSE, BinarySeries(ToNat(len.val)), types, len.rest,
                          big_endian, <<>>))

\* The mutant of deserialize_option: every flag but NONE is taken for SOME.
deserialize_option_any_flag(ty, data, big_endian) ==
    Then(unwrap(next(data)), LAMBDA flag :
        IF flag.val = NONE THEN Ok(None, flag.rest)
        ELSE Then(Deserialize(ty, flag.rest, big_endian), LAMBDA d :
                 Ok(Some(d.val), d.rest)))

deserialize_option(ty, data, big_endian) ==
    Then(unwrap(next(data)), LAMBDA flag :
        IF flag.val = NONE THEN Ok(None, flag.rest)
        ELSE IF flag.val = SOME
        THEN Then(Deserialize(ty, flag.rest, big_endian), LAMBDA d :
                 Ok(Some(d.val), d.rest))
        ELSE Err(MissingOrInvalidFlag(flag.val, SOME), flag.rest))

deserialize_newtype_struct(ty, data, big_endian) ==
    Then(Deserialize(ty, data, big_endian), LAMBDA d : Ok(<<d.val>>, d.rest))

\* The mutant of deserialize_struct: neither the marker nor the name read
\* is compared with anything.
deserialize_struct_unchecked(name, types, data, big_endian) ==
    Then(unwrap(next(data)), LAMBDA struct_flag :
    Then(take_string(struct_flag.rest), LAMBDA dname :
    Then(unwrap(next_usize(dname.rest)), LAMBDA len :
        visit_seq_fixed(FALSE, BinarySeries(ToNat(len.val)), types, len.rest,
                        big_endian, <<>>))))

deserialize_struct(name, types, data, big_endian) ==
    Then(unwrap(next(data)), LAMBDA struct_flag :
        IF struct_flag.val # STRUCT
        THEN Err(MissingOrInvalidFlag(struct_flag.val, STRUCT), struct_flag.rest)
        ELSE Then(take_string(struct_flag.rest), LAMBDA dname :
                 IF dname.val # name
                 THEN Err(InvalidName(dname.val, name), dname.rest)
                 ELSE Then(unwrap(next_usize(dname.rest)), LAMBDA len :
                          visit_seq_fixed(FALSE, BinarySeries(ToNat(len.val)),
                                          types, len.rest, big_endian, <<>>))))

\* VariantAccess for Enum, as the derived visit_enum calls it for variant
\* var: unit_variant, newtype_variant_seed, tuple_variant (deserialize_seq)
\* or struct_variant (deserialize_map); val is the variant's fields.
variant_access(var, data, big_endian) ==
    CASE var.vk = "unit" -> Err(UnexpectedType, data)
      [] var.vk = "newtype" ->
             Then(Deserialize(var.elems[1], data, big_endian), LAMBDA d :
                 Ok(<<d.val>>, d.rest))
      [] var.vk = "tuple" -> deserialize_seq(FALSE, var.elems, data, big_endian)
      [] var.vk = "struct" ->
             Then(unwrap(next_usize(data)), LAMBDA len :
                 visit_map_struct(BinarySeries(ToNat(len.val)), var.fields,
                                  var.elems, len.rest, big_endian,
                                  [i \in 1..Len(var.fields) |-> <<>>]))

\* visitor.visit_enum(Enum::new(self)): EnumAccess::variant_seed
\* (seed.deserialize(&mut *self.de).unwrap()), then the variant's fields.
enum_access(variants, data, big_endian) ==
    Then(unwrap(deserialize_identifier(
                    [i \in 1..Len(variants) |-> variants[i].name], FALSE, data)),
         LAMBDA id :
    Then(variant_access(variants[id.val], id.rest, big_endian), LAMBDA d :
        Ok(EnumValue(id.val - 1, d.val), d.rest)))

\* deserialize_enum.  A unit variant goes through variant.into_deserializer():
\* the derived visit_enum finds the variant by its name and asks for a unit
\* variant, which any other kind of variant refuses (Error::invalid_type, a
\* Message).
deserialize_enum(variants, data, big_endian) ==
    Then(unwrap(next(data)), LAMBDA flag :
        IF flag.val = UNIT_VARIANT
        THEN Then(unwrap(next_u32(flag.rest, big_endian)), LAMBDA variant_index :
                 IF ToNat(variant_index.val) >= Len(variants)
                 THEN Panic(variant_index.rest)   \* variants[variant_index]
                 ELSE IF variants[ToNat(variant_index.val) + 1].vk = "unit"
                 THEN Ok(EnumValue(ToNat(variant_index.val), <<>>),
                         variant_index.rest)
                 ELSE Err(Message("invalid type"), variant_index.rest))
        ELSE enum_access(variants, flag.rest, big_endian))

\* deserialize_i128 and deserialize_u128, which impl de::Deserializer for
\* &mut Deserializer leaves to serde: Err(Error::custom(..)), nothing read.
deserialize_i128(k, data) ==
    Err(Message(IF k = "u128" THEN "u128 is not supported"
                ELSE "i128 is not supported"),
        data)

\* T::deserialize(&mut deserializer) of the tests' types: the operation
\* the type's Deserialize impl calls.
Deserialize(ty, data, big_endian) ==
    LET t == TypeDef(ty)
    IN  CASE t.k = "bool" -> deserialize_bool(data)
          [] t.k \in NumKinds -> deserialize_num(t.k, data, big_endian)
          [] t.k \in WideKinds -> deserialize_i128(t.k, data)
          [] t.k = "char" -> deserialize_char(data)
          \* deserialize_string: the visitor is given take_string()
          [] t.k = "String" -> take_string(data)
          \* deserialize_unit_struct is visitor.visit_unit() too
          [] t.k \in {"unit", "unit_struct"} -> deserialize_unit(data)
          [] t.k = "option" -> deserialize_option(t.elems[1], data, big_endian)
          [] t.k = "newtype_struct" ->
                 deserialize_newtype_struct(t.elems[1], data, big_endian)
          [] t.k = "seq" -> deserialize_seq(TRUE, t.elems, data, big_endian)
          \* deserialize_tuple and deserialize_tuple_struct are deserialize_seq
          [] t.k \in {"tuple", "tuple_struct"} ->
                 deserialize_seq(FALSE, t.elems, data, big_endian)
          [] t.k = "map" -> deserialize_map(t.elems, data, big_endian)
          [] t.k = "struct" -> deserialize_struct(t.name, t.elems, data, big_endian)
          [] t.k = "enum" -> deserialize_enum(t.variants, data, big_endian)

\* Deserializer::from_bytes.
\* The mutant of from_bytes: input left unread is an error.
from_bytes_whole(ty, data, big_endian) ==
    Then(Deserialize(ty, data, big_endian), LAMBDA r :
        IF r.rest # <<>> THEN Err(Message("trailing bytes"), r.rest) ELSE r)

from_bytes(ty, data, big_endian) == Deserialize(ty, data, big_endian)

----------------------------------------------------------------------------
(* stream/ser.rs: the streaming Serializer, writing to a Vec<u8> as the    *)
(* tests do.  output is the sink's content so far.                         *)

\* Serializer::write: self.output.write(data.as_slice()).unwrap().
stream_write(output, data) == Ok(output \o data, <<>>)

stream_serialize_num(output, bits, w, big_endian) ==
    IF big_endian
    THEN stream_write(output, to_be_bytes(bits, w))
    ELSE stream_write(output, to_le_bytes(bits, w))

\* serialize_vec of bytes: serialize_num of each item, one byte wide, each
\* one write to the sink.
stream_serialize_vec(output, v, big_endian) ==
    Ok(output \o [i \in 1..Len(v) |->
                     stream_serialize_num(<<>>, BitsOf(v[i]), 1, big_endian).val[1]],
       <<>>)

stream_serialize_usize(output, v, big_endian) ==
    stream_serialize_vec(output, compress_usize(BitsOf(v)), big_endian)

stream_serialize_u8(output, v, big_endian) ==
    stream_serialize_num(output, BitsOf(v), 1, big_endian)
stream_serialize_u32(output, v, big_endian) ==
    stream_serialize_num(output, BitsOf(v), 4, big_endian)

stream_serialize_bool(output, v, big_endian) ==
    stream_serialize_u8(output, IF v THEN 1 ELSE 0, big_endian)

stream_serialize_char(output, v, big_endian) ==
    stream_serialize_vec(output, encode_utf8(v), big_endian)

stream_serialize_str(output, v, big_endian) ==
    LET r == unwrap(stream_serialize_usize(output, Len(v), big_endian))
    IN  IF r.res # "Ok" THEN r ELSE stream_serialize_vec(r.val, v, big_endian)

stream_serialize_none(output, big_endian) ==
    stream_serialize_u8(output, NONE, big_endian)

\* serialize_some up to value.serialize(self).
stream_serialize_some_flag(output, big_endian) ==
    unwrap(stream_serialize_u8(output, SOME, big_endian))

stream_serialize_unit(output) == Ok(output, <<>>)

stream_serialize_unit_variant(output, variant_index, big_endian) ==
    LET r == unwrap(stream_serialize_u8(output, UNIT_VARIANT, big_endian))
    IN  IF r.res # "Ok" THEN r
        ELSE stream_serialize_u32(r.val, variant_index, big_endian)

\* The mutant of stream_serialize_newtype_variant_head: the index without
\* the flag before it, as the buffered Serializer writes it.
stream_serialize_newtype_variant_bare(output, variant_index, big_endian) ==
    unwrap(stream_serialize_u32(output, variant_index, big_endian))

\* serialize_newtype_variant up to value.serialize(self).
stream_serialize_newtype_variant_head(output, variant_index, big_endian) ==
    LET r == unwrap(stream_serialize_u8(output, NONUNIT_VARIANT, big_endian))
    IN  IF r.res # "Ok" THEN r
        ELSE unwrap(stream_serialize_u32(r.val, variant_index, big_endian))

stream_serialize_seq(output, len, big_endian) ==
    IF len # None
    THEN unwrap(stream_serialize_usize(output, len[1], big_endian))
    ELSE Panic(<<>>)      \* unimplemented!()


stream_serialize_tuple_variant(output, variant_index, len, big_endian) ==
    LET r == stream_serialize_newtype_variant_head(output, variant_index, big_endian)
    IN  IF r.res # "Ok" THEN r
        ELSE unwrap(stream_serialize_usize(r.val, len, big_endian))

stream_serialize_map(output, len, big_endian) ==
    IF len # None
    THEN unwrap(stream_serialize_vec(output, compress_usize(BitsOf(len[1])),
                                     big_endian))
    ELSE Panic(<<>>)      \* unimplemented!()

stream_serialize_struct(output, len, big_endian) ==
    unwrap(stream_serialize_usize(output, len, big_endian))

stream_serialize_struct_variant(output, variant_index, len, big_endian) ==
    LET r1 == unwrap(stream_serialize_u8(output, STRUCT_VARIANT, big_endian))
        r2 == IF r1.res # "Ok" THEN r1
              ELSE unwrap(stream_serialize_u32(r1.val, variant_index, big_endian))
    IN  IF r2.res # "Ok" THEN r2
        ELSE unwrap(stream_serialize_usize(r2.val, len, big_endian))

\* T::serialize(&mut serializer) of the tests' types on the streaming
\* Serializer, as Serialize on the buffered one.
RECURSIVE stream_Serialize(_, _, _, _)
RECURSIVE stream_SerializeEach(_, _, _, _)

stream_SerializeEach(types, vals, r, big_endian) ==
    IF r.res # "Ok" \/ vals = <<>> THEN r
    ELSE stream_SerializeEach(
             Tail(types), Tail(vals),
             stream_Serialize(Head(types), Head(vals), r.val, big_endian),
             big_endian)

stream_Serialize(ty, v, output, big_endian) ==
    LET t == TypeDef(ty)
    IN  CASE t.k = "bool" -> stream_serialize_bool(output, v, big_endian)
          \* serialize_u128 and serialize_i128 are serialize_num too
          [] t.k \in NumKinds \cup WideKinds ->
                 stream_serialize_num(output, v, NumWidth(t.k), big_endian)
          [] t.k = "char" -> stream_serialize_char(output, v, big_endian)
          [] t.k = "String" -> stream_serialize_str(output, v, big_endian)
          \* serialize_unit_struct is Ok(()) too
          [] t.k \in {"unit", "unit_struct"} -> stream_serialize_unit(output)
          [] t.k = "option" ->
                 IF v = <<>> THEN stream_serialize_none(output, big_endian)
                 ELSE stream_SerializeEach(
                          t.elems, v,
                          stream_serialize_some_flag(output, big_endian),
                          big_endian)
          [] t.k = "newtype_struct" ->
                 stream_Serialize(t.elems[1], v[1], output, big_endian)
          [] t.k = "seq" ->
                 stream_SerializeEach(
                     Repeat(t.elems, Len(v)), v,
                     stream_serialize_seq(output, Some(Len(v)), big_endian),
                     big_endian)
          \* serialize_tuple and serialize_tuple_struct are serialize_seq(Some(len))
          [] t.k \in {"tuple", "tuple_struct"} ->
                 stream_SerializeEach(
                     t.elems, v,
                     stream_serialize_seq(output, Some(Len(v)), big_endian),
                     big_endian)
          [] t.k = "map" ->
                 stream_SerializeEach(
                     Repeat(t.elems, Len(v)), Flatten(v),
                     stream_serialize_map(output, Some(Len(v)), big_endian),
                     big_endian)
          [] t.k = "struct" ->
                 stream_SerializeEach(
                     t.elems, v,
                     stream_serialize_struct(output, Len(v), big_endian),
                     big_endian)
          [] t.k = "enum" ->
                 LET var == t.variants[v.idx + 1]
                     head ==
                         CASE var.vk = "unit" ->
                                  stream_serialize_unit_variant(
                                      output, v.idx, big_endian)
                           [] var.vk = "newtype" ->
                                  stream_serialize_newtype_variant_head(
                                      output, v.idx, big_endian)
                           [] var.vk = "tuple" ->
                                  stream_serialize_tuple_variant(
                                      output, v.idx, Len(v.fields), big_endian)
                           [] var.vk = "struct" ->
                                  stream_serialize_struct_variant(
                                      output, v.idx, Len(v.fields), big_endian)
                 IN  stream_SerializeEach(var.elems, v.fields, head, big_endian)

\* Serializer::write_bytes: val is the sink's content afterwards.
write_bytes(ty, value, big_endian) == stream_Serialize(ty, value, <<>>, big_endian)

----------------------------------------------------------------------------
(* stream/de.rs: the streaming Deserializer, reading from a byte slice as  *)
(* the tests do.  data is what the reader has left.                        *)

\* <&[u8] as Read>::read into a buffer of len bytes: what was read, and
\* what the reader has left.
slice_read(data, len) ==
    [buf |-> SubSeq(data, 1, Min(len, Len(data))),
     rest |-> SubSeq(data, Min(len, Len(data)) + 1, Len(data))]

stream_next(data) ==
    LET got(v) == IF Len(v.buf) < 1 THEN Err(UnexpectedEndOfInput, v.rest)
                  ELSE Ok(v.buf[1], v.rest)
    IN  got(slice_read(data, 1))

stream_take(data, len) ==
    LET got(v) == IF Len(v.buf) < len THEN Err(UnexpectedEndOfInput, v.rest)
                  ELSE Ok(v.buf, v.rest)
    IN  got(slice_read(data, len))

\* Err(e) => Err(BinaryError::Message { .. }): an Err becomes a Message.
to_message(r, message) ==
    IF r.res = "Err" THEN Err(Message(message), r.rest) ELSE r

\* impl_next_uxx!(next_u32, u32): a failed take is a Message.
stream_next_u32(data, big_endian) ==
    Then(to_message(stream_take(data, 4), "UnexpectedEndOfInput"), LAMBDA r :
        Ok(IF big_endian THEN from_be_bytes(r.val) ELSE from_le_bytes(r.val),
           r.rest))

RECURSIVE stream_next_usize_extra(_, _, _)
stream_next_usize_extra(data, n, bytes) ==
    IF n = 0 THEN Ok(bytes, data)
    ELSE Then(stream_next(data), LAMBDA r :
             stream_next_usize_extra(r.rest, n - 1, Append(bytes, r.val)))

stream_next_usize(data) ==
    Then(stream_next(data), LAMBDA r0 :
    Then(IF BitAnd(r0.val, 128) = 0 THEN Ok(<<r0.val>>, r0.rest)
         ELSE Then(stream_next(r0.rest), LAMBDA r1 :
                  stream_next_usize_extra(r1.rest, BitAnd(r1.val, 224) \div 32,
                                          <<r0.val, r1.val>>)),
         LAMBDA rx :
        [decompress_usize(rx.val) EXCEPT !.rest = rx.rest]))

stream_take_string(data) ==
    Then(stream_next_usize(data), LAMBDA size :
    Then(stream_take(size.rest, ToNat(size.val)), LAMBDA r :
        IF ~from_utf8_ok(r.val) THEN Err(Message("FromUtf8Error"), r.rest)
        ELSE r))

stream_deserialize_num(k, data, big_endian) ==
    IF k \in {"u8", "i8"}
    THEN Then(stream_next(data), LAMBDA r : Ok(BitsOf(r.val), r.rest))
    ELSE Then(stream_take(data, NumWidth(k)), LAMBDA r :
             Ok(IF big_endian THEN from_be_bytes(r.val)
                ELSE from_le_bytes(r.val),
                r.rest))

stream_deserialize_bool(data) ==
    Then(stream_next(data), LAMBDA r : Ok(r.val # 0, r.rest))

\* The rest of deserialize_char once the lead is read and len more bytes
\* are to be appended: String::from_utf8(bytes) (BinaryError::from(e) is a
\* Message), then s.chars().next().
stream_deserialize_char_arm(lead, data, len) ==
    Then(IF len = 0 THEN Ok(<<>>, data) ELSE stream_take(data, len), LAMBDA r :
        IF ~from_utf8_ok(<<lead>> \o r.val)
        THEN Err(Message("FromUtf8Error"), r.rest)
        ELSE Ok(first_char(<<lead>> \o r.val), r.rest))

\* The bytes deserialize_char takes after a lead byte (-1: InvalidBytes).
stream_char_len(lead) ==
    IF lead \in 0..127 THEN 0
    ELSE IF lead \in 192..223 THEN 1
    ELSE IF lead \in 224..239 THEN 3
    ELSE IF lead \in 240..255 THEN 4
    ELSE -1

stream_deserialize_char(data) ==
    Then(stream_next(data), LAMBDA b :
        IF stream_char_len(b.val) = -1 THEN Err(InvalidBytes, b.rest)
        ELSE stream_deserialize_char_arm(b.val, b.rest, stream_char_len(b.val)))

stream_deserialize_unit(data) == Ok(<<>>, data)

\* deserialize_identifier: visitor.visit_u32(self.next_u32()?); the derived
\* identifier visitor takes an index below n for that variant (val: the
\* index from 0) and fails on any other with Error::invalid_value, a
\* Message.
stream_deserialize_identifier(n, data, big_endian) ==
    Then(stream_next_u32(data, big_endian), LAMBDA r :
        IF ToNat(r.val) >= n THEN Err(Message("invalid value"), r.rest)
        ELSE Ok(ToNat(r.val), r.rest))

stream_deserialize_seq(vec, types, data, big_endian) ==
    Then(stream_next_usize(data), LAMBDA len :
        IF vec
        THEN visit_seq_vec(TRUE, BinarySeries(ToNat(len.val)), types[1],
                           len.rest, big_endian, <<>>)
        ELSE visit_seq_fixed(TRUE, BinarySeries(ToNat(len.val)), types,
                             len.rest, big_endian, <<>>))

stream_deserialize_map(types, data, big_endian) ==
    Then(stream_next_usize(data), LAMBDA len :
        visit_map_hashmap(TRUE, BinarySeries(ToNat(len.val)), types, len.rest,
                          big_endian, <<>>))

stream_deserialize_option(ty, data, big_endian) ==
    Then(stream_next(data), LAMBDA flag :
        IF flag.val = NONE THEN Ok(None, flag.rest)
        ELSE IF flag.val = SOME
        THEN Then(stream_Deserialize(ty, flag.rest, big_endian), LAMBDA d :
                 Ok(Some(d.val), d.rest))
        ELSE Err(MissingOrInvalidFlag(flag.val, SOME), flag.rest))

stream_deserialize_newtype_struct(ty, data, big_endian) ==
    Then(stream_Deserialize(ty, data, big_endian), LAMBDA d :
        Ok(<<d.val>>, d.rest))

stream_deserialize_struct(types, data, big_endian) ==
    Then(stream_next_usize(data), LAMBDA len :
        visit_seq_fixed(TRUE, BinarySeries(ToNat(len.val)), types, len.rest,
                        big_endian, <<>>))

\* VariantAccess for Enum, as the derived visit_enum calls it for variant
\* var; tuple_variant and struct_variant are both deserialize_seq.
stream_variant_access(var, data, big_endian) ==
    CASE var.vk = "unit" -> Err(UnexpectedType, data)
      [] var.vk = "newtype" ->
             Then(stream_Deserialize(var.elems[1], data, big_endian), LAMBDA d :
                 Ok(<<d.val>>, d.rest))
      [] var.vk \in {"tuple", "struct"} ->
             stream_deserialize_seq(FALSE, var.elems, data, big_endian)

\* visitor.visit_enum(Enum::new(self)): EnumAccess::variant_seed
\* (seed.deserialize(&mut *self.de)?), then the variant's fields.
stream_enum_access(variants, data, big_endian) ==
    Then(stream_deserialize_identifier(Len(variants), data, big_endian),
         LAMBDA id :
    Then(stream_variant_access(variants[id.val + 1], id.rest, big_endian),
         LAMBDA d :
        Ok(EnumValue(id.val, d.val), d.rest)))

stream_deserialize_enum(variants, data, big_endian) ==
    Then(stream_next(data), LAMBDA variant_type :
        IF variant_type.val \in {NONUNIT_VARIANT, STRUCT_VARIANT}
        THEN stream_enum_access(variants, variant_type.rest, big_endian)
        ELSE IF variant_type.val = UNIT_VARIANT
        THEN Then(stream_next_u32(variant_type.rest, big_endian),
                  LAMBDA variant_index :
                 IF ToNat(variant_index.val) >= Len(variants)
                 THEN Panic(variant_index.rest)   \* variants[variant_index]
                 ELSE IF variants[ToNat(variant_index.val) + 1].vk = "unit"
                 THEN Ok(EnumValue(ToNat(variant_index.val), <<>>),
                         variant_index.rest)
                 ELSE Err(Message("invalid type"), variant_index.rest))
        ELSE Err(MissingOrInvalidFlag(variant_type.val, UNIT_VARIANT),
                 variant_type.rest))

stream_Deserialize(ty, data, big_endian) ==
    LET t == TypeDef(ty)
    IN  CASE t.k = "bool" -> stream_deserialize_bool(data)
          [] t.k \in NumKinds \cup WideKinds ->
                 stream_deserialize_num(t.k, data, big_endian)
          [] t.k = "char" -> stream_deserialize_char(data)
          \* deserialize_string: the visitor is given take_string()
          [] t.k = "String" -> stream_take_string(data)
          \* deserialize_unit_struct is visitor.visit_unit() too
          [] t.k \in {"unit", "unit_struct"} -> stream_deserialize_unit(data)
          [] t.k = "option" ->
                 stream_deserialize_option(t.elems[1], data, big_endian)
          [] t.k = "newtype_struct" ->
                 stream_deserialize_newtype_struct(t.elems[1], data, big_endian)
          [] t.k = "seq" -> stream_deserialize_seq(TRUE, t.elems, data, big_endian)
          \* deserialize_tuple and deserialize_tuple_struct are deserialize_seq
          [] t.k \in {"tuple", "tuple_struct"} ->
                 stream_deserialize_seq(FALSE, t.elems, data, big_endian)
          [] t.k = "map" -> stream_deserialize_map(t.elems, data, big_endian)
          [] t.k = "struct" -> stream_deserialize_struct(t.elems, data, big_endian)
          [] t.k = "enum" -> stream_deserialize_enum(t.variants, data, big_endian)

\* Deserializer::read_bytes.
read_bytes(ty, data, big_endian) == stream_Deserialize(ty, data, big_endian)

----------------------------------------------------------------------------
(* The count codec's tests (common.rs, tests::test_usize and tests::test): *)
(* a count is compressed, and what came out is decompressed.               *)

RECURSIVE SetsUpTo(_)
SetsUpTo(k) ==
    IF k = 0 THEN {{}}
    ELSE LET S == SetsUpTo(k - 1)
         IN  S \cup {s \cup {a} : s \in S, a \in 0..(UsizeBits - 1)}

\* Counts in 0 .. 2^64 - 1: those of at most MaxOnes one bits, and 2^k - 1.
CountSamples == SetsUpTo(MaxOnes) \cup {0..(k - 1) : k \in 1..UsizeBits}

\* The variables of each state machine, as the others leave them.
IdleCount ==
    /\ count = {}
    /\ usize_bytes = <<>>
    /\ usize_res = NotYet
    /\ t_bytes = <<>>
    /\ t_res = NotYet

IdleCodec ==
    /\ T = "unit"
    /\ test_value = <<>>
    /\ be = FALSE
    /\ serialized = NotYet
    /\ input = <<>>
    /\ undersized = FALSE
    /\ deserialized = NotYet
    /\ written = NotYet
    /\ read = NotYet

IdleSeries ==
    /\ series_de = [streaming |-> FALSE, data |-> <<>>, overflow_checks |-> FALSE]
    /\ series_state = [len |-> 0, position |-> 0]
    /\ series_res = NotYet
    /\ series_log = [kind |-> "none", before |-> <<>>, requests |-> 0,
                     yielded |-> 0, count |-> {}]

IdleCursor ==
    /\ cursor = <<>>
    /\ cursor_res = NotYet
    /\ cursor_log = [op |-> "none", n |-> 0, before |-> <<>>]

IdleSink ==
    /\ sink = [content |-> <<>>, accept |-> 0, fails |-> FALSE]
    /\ sink_res = NotYet

IdleLegacy ==
    /\ legacy_serialized = NotYet
    /\ legacy_deserialized = NotYet

IdleLen ==
    /\ seq_len = None
    /\ seq_res = NotYet
    /\ map_res = NotYet
    /\ stream_seq_res = NotYet
    /\ stream_map_res = NotYet

InitCount ==
    /\ count \in CountSamples
    /\ usize_bytes = <<>>
    /\ usize_res = NotYet
    /\ t_bytes = <<>>
    /\ t_res = NotYet
    /\ IdleCodec
    /\ IdleLen
    /\ IdleLegacy
    /\ IdleSink
    /\ IdleCursor
    /\ IdleSeries

CompressUsize ==
    /\ usize_bytes = <<>>
    /\ usize_bytes' = compress_usize(count)
    /\ UNCHANGED <<count, usize_res, t_bytes, t_res, codecVars, lenVars, legacyVars,
                   seriesVars,
                   cursorVars,
                   sinkVars>>

DecompressUsize ==
    /\ usize_bytes # <<>>
    /\ usize_res.res = "NotYet"
    /\ usize_res' = decompress_usize(usize_bytes)
    /\ UNCHANGED <<count, usize_bytes, t_bytes, t_res, codecVars, lenVars, legacyVars,
                   seriesVars,
                   cursorVars,
                   sinkVars>>

Compress ==
    /\ t_bytes = <<>>
    /\ t_bytes' = compress(count)
    /\ UNCHANGED <<count, usize_bytes, usize_res, t_res, codecVars, lenVars, legacyVars,
                   seriesVars,
                   cursorVars,
                   sinkVars>>

Decompress ==
    /\ t_bytes # <<>>
    /\ t_res.res = "NotYet"
    /\ t_res' = decompress(t_bytes)
    /\ UNCHANGED <<count, usize_bytes, usize_res, t_bytes, codecVars, lenVars, legacyVars,
                   seriesVars,
                   cursorVars,
                   sinkVars>>

NextCount == CompressUsize \/ DecompressUsize \/ Compress \/ Decompress

SpecCount == InitCount /\ [][NextCount]_vars

----------------------------------------------------------------------------
(* The codec's tests (serde_binary_adv.rs tests::test, test_be and         *)
(* test_undersized; stream.rs tests::test and test_be): a value is encoded *)
(* in a byte order, the bytes, whole or short of their last, are decoded   *)
(* as the value's type in the same byte order.                             *)

Init ==
    /\ T \in TypeNames
    /\ test_value \in ValuesOf(T)
    /\ be \in BOOLEAN
    /\ serialized = NotYet
    /\ input = <<>>
    /\ undersized = FALSE
    /\ deserialized = NotYet
    /\ written = NotYet
    /\ read = NotYet
    /\ IdleCount
    /\ IdleLen
    /\ IdleLegacy
    /\ IdleSink
    /\ IdleCursor
    /\ IdleSeries

\* let serialized = Serializer::to_bytes(&value, big_endian).unwrap().
ToBytes ==
    /\ serialized.res = "NotYet"
    /\ serialized' = unwrap(to_bytes(T, test_value, be))
    /\ input' = serialized'.val
    /\ UNCHANGED <<T, test_value, be, undersized, deserialized, written,
                   read, countVars, lenVars, legacyVars,
                   seriesVars,
                   cursorVars,
                   sinkVars>>

\* let shrunk = serialized[0..serialized.len() - 1].to_vec().
Shrink ==
    /\ serialized.res = "Ok"
    /\ deserialized.res = "NotYet"
    /\ ~undersized
    /\ Len(input) > 0
    /\ input' = SubSeq(input, 1, Len(input) - 1)
    /\ undersized' = TRUE
    /\ UNCHANGED <<T, test_value, be, serialized, deserialized, written,
                   read, countVars, lenVars, legacyVars,
                   seriesVars,
                   cursorVars,
                   sinkVars>>

\* Deserializer::from_bytes::<T>(&serialized, big_endian), or of &shrunk.
FromBytes ==
    /\ serialized.res = "Ok"
    /\ deserialized.res = "NotYet"
    /\ deserialized' = from_bytes(T, input, be)
    /\ UNCHANGED <<T, test_value, be, serialized, input, undersized,
                   written, read, countVars, lenVars, legacyVars,
                   seriesVars,
                   cursorVars,
                   sinkVars>>

\* Serializer::write_bytes(&mut serialized, &value, big_endian).unwrap().
WriteBytes ==
    /\ written.res = "NotYet"
    /\ written' = unwrap(write_bytes(T, test_value, be))
    /\ UNCHANGED <<T, test_value, be, serialized, input, undersized,
                   deserialized, read, countVars, lenVars, legacyVars,
                   seriesVars,
                   cursorVars,
                   sinkVars>>

\* Deserializer::read_bytes(&mut serialized.as_slice(), big_endian).
ReadBytes ==
    /\ written.res = "Ok"
    /\ read.res = "NotYet"
    /\ read' = read_bytes(T, written.val, be)
    /\ UNCHANGED <<T, test_value, be, serialized, input, undersized,
                   deserialized, written, countVars, lenVars, legacyVars,
                   seriesVars,
                   cursorVars,
                   sinkVars>>

Next == ToBytes \/ Shrink \/ FromBytes \/ WriteBytes \/ ReadBytes

Spec == Init /\ [][Next]_vars

----------------------------------------------------------------------------
(* Decoding bytes that no encoder wrote (tests::test_bad_char of both      *)
(* modules): data is decoded as ty by the buffered and by the streaming    *)
(* Deserializer.                                                           *)

\* Up to MaxTail bytes of TailBytes: an ASCII byte and a continuation byte
\* that every lead accepts as its second.
TailBytes == {65, 160}
Tails(n) == UNION {[1..k -> TailBytes] : k \in 0..n}

\* Leads at both ends of each range of deserialize_char, the flags, and
\* bytes that are counts.
LeadSamples == {0, 1, 3, 65, 127, 128, 191, 192, 223, 224, 239, 240, 252, 253,
                254, 255}

InitDecode ==
    /\ \/ /\ T = "char"
          /\ input \in {<<>>} \cup
                 {<<lead>> \o tail : lead \in 0..255, tail \in Tails(MaxTail)}
       \/ /\ T \in TypeNames \ {"char"}
          /\ input \in {<<>>} \cup
                 {<<lead>> \o tail : lead \in LeadSamples, tail \in Tails(1)}
    /\ be \in BOOLEAN
    /\ test_value = <<>>
    /\ serialized = NotYet
    /\ undersized = FALSE
    /\ deserialized = NotYet
    /\ written = NotYet
    /\ read = NotYet
    /\ IdleCount
    /\ IdleLen
    /\ IdleLegacy
    /\ IdleSink
    /\ IdleCursor
    /\ IdleSeries

\* Deserializer::from_bytes::<T>(&data, big_endian).
DecodeBuffered ==
    /\ deserialized.res = "NotYet"
    /\ deserialized' = from_bytes(T, input, be)
    /\ UNCHANGED <<T, test_value, be, serialized, input, undersized,
                   written, read, countVars, lenVars, legacyVars,
                   seriesVars,
                   cursorVars,
                   sinkVars>>

\* Deserializer::read_bytes::<T>(&mut data.as_slice(), big_endian).
DecodeStream ==
    /\ read.res = "NotYet"
    /\ read' = read_bytes(T, input, be)
    /\ UNCHANGED <<T, test_value, be, serialized, input, undersized,
                   deserialized, written, countVars, lenVars, legacyVars,
                   seriesVars,
                   cursorVars,
                   sinkVars>>

NextDecode == DecodeBuffered \/ DecodeStream

SpecDecode == InitDecode /\ [][NextDecode]_vars

----------------------------------------------------------------------------
(* A Serialize impl that calls serialize_seq or serialize_map with a len   *)
(* of its own choosing, on a buffered and on a streaming Serializer that   *)
(* have written nothing yet.                                               *)

InitLen ==
    /\ seq_len \in {None} \cup {Some(n) : n \in 0..MaxLen}
    /\ be \in BOOLEAN
    /\ seq_res = NotYet
    /\ map_res = NotYet
    /\ stream_seq_res = NotYet
    /\ stream_map_res = NotYet
    /\ T = "unit"
    /\ test_value = <<>>
    /\ serialized = NotYet
    /\ input = <<>>
    /\ undersized = FALSE
    /\ deserialized = NotYet
    /\ written = NotYet
    /\ read = NotYet
    /\ IdleCount
    /\ IdleLegacy
    /\ IdleSink
    /\ IdleCursor
    /\ IdleSeries

SerializeSeq ==
    /\ seq_res.res = "NotYet"
    /\ seq_res' = serialize_seq(<<>>, seq_len, be)
    /\ UNCHANGED <<seq_len, map_res, stream_seq_res, stream_map_res, codecVars,
                   countVars, legacyVars,
                   seriesVars,
                   cursorVars,
                   sinkVars>>

SerializeMap ==
    /\ map_res.res = "NotYet"
    /\ map_res' = serialize_map(<<>>, seq_len, be)
    /\ UNCHANGED <<seq_len, seq_res, stream_seq_res, stream_map_res, codecVars,
                   countVars, legacyVars,
                   seriesVars,
                   cursorVars,
                   sinkVars>>

StreamSerializeSeq ==
    /\ stream_seq_res.res = "NotYet"
    /\ stream_seq_res' = stream_serialize_seq(<<>>, seq_len, be)
    /\ UNCHANGED <<seq_len, seq_res, map_res, stream_map_res, codecVars, countVars, legacyVars,
                   seriesVars,
                   cursorVars,
                   sinkVars>>

StreamSerializeMap ==
    /\ stream_map_res.res = "NotYet"
    /\ stream_map_res' = stream_serialize_map(<<>>, seq_len, be)
    /\ UNCHANGED <<seq_len, seq_res, map_res, stream_seq_res, codecVars, countVars, legacyVars,
                   seriesVars,
                   cursorVars,
                   sinkVars>>

NextLen == SerializeSeq \/ SerializeMap \/ StreamSerializeSeq \/ StreamSerializeMap

SpecLen == InitLen /\ [][NextLen]_vars

----------------------------------------------------------------------------
(* Decoding an encoding whose frame was changed on the way: a value with a *)
(* leading flag is encoded, the flag or the struct's name in the bytes is  *)
(* replaced, and the bytes are decoded as the value's type by the buffered *)
(* and by the streaming Deserializer.                                      *)

FrameTypes == {"Option<u64>", "Option<i32>", "Test"}

\* Names a struct's name is replaced by: none, one as long, a longer one,
\* and one that differs in case only.
NameSamples == {<<>>, Name.Unit, Name.TestEnum, Str.test}

InitFrame ==
    /\ T \in FrameTypes
    /\ test_value \in ValuesOf(T)
    /\ be \in BOOLEAN
    /\ serialized = NotYet
    /\ input = <<>>
    /\ undersized = FALSE
    /\ deserialized = NotYet
    /\ written = NotYet
    /\ read = NotYet
    /\ IdleCount
    /\ IdleLen
    /\ IdleLegacy
    /\ IdleSink
    /\ IdleCursor
    /\ IdleSeries

\* The first byte of what either Serializer wrote is replaced by f, once.
ReplaceFlag ==
    /\ deserialized.res = "NotYet"
    /\ read.res = "NotYet"
    /\ input \in {<<>>, serialized.val, written.val}
    /\ \E enc \in {serialized, written}, f \in 0..255 :
           /\ enc.res = "Ok"
           /\ Len(enc.val) > 0
           /\ input' = <<f>> \o Tail(enc.val)
    /\ UNCHANGED <<T, test_value, be, serialized, undersized, deserialized,
                   written, read, countVars, lenVars, legacyVars,
                   seriesVars,
                   cursorVars,
                   sinkVars>>

\* The name that follows the marker in what the buffered Serializer wrote
\* for a struct is replaced by the encoding of another name.
ReplaceName ==
    /\ deserialized.res = "NotYet"
    /\ read.res = "NotYet"
    /\ input \in {<<>>, serialized.val, written.val}
    /\ TypeDef(T).k = "struct"
    /\ serialized.res = "Ok"
    /\ \E n \in NameSamples :
           input' = <<serialized.val[1]>>
                        \o serialize_str(<<>>, n, be).val
                        \o SubSeq(serialized.val,
                                  2 + Len(serialize_str(<<>>, TypeDef(T).name, be).val),
                                  Len(serialized.val))
    /\ UNCHANGED <<T, test_value, be, serialized, undersized, deserialized,
                   written, read, countVars, lenVars, legacyVars,
                   seriesVars,
                   cursorVars,
                   sinkVars>>

NextFrame ==
    ToBytes \/ WriteBytes \/ ReplaceFlag \/ ReplaceName \/ DecodeBuffered
        \/ DecodeStream

SpecFrame == InitFrame /\ [][NextFrame]_vars

----------------------------------------------------------------------------
(* decompress_usize given bytes that compress_usize need not have written  *)
(* (common.rs, tests::test_decompress_empty and test_decompress_too_small).*)

\* The longest input: one byte more than the longest encoding of a count.
MaxCountLen == 10

\* Inputs of up to MaxCountLen bytes: a first byte with and without the
\* high bit, a second byte of every length field with the low five bits
\* clear and set, then bytes 0x01 and 0xFF.
CountBytes ==
    {<<>>}
        \cup {<<b0>> : b0 \in {0, 127, 128, 255}}
        \cup {<<b0, 32 * k + j>> \o rest :
                  b0 \in {0, 127, 128, 255}, k \in 0..7, j \in {0, 31},
                  rest \in UNION {[1..n -> {1, 255}] : n \in 0..(MaxCountLen - 2)}}

InitCountDecode ==
    /\ IdleCodec
    /\ IdleLen
    /\ IdleLegacy
    /\ IdleSink
    /\ IdleCursor
    /\ IdleSeries
    /\ count = {}
    /\ usize_bytes \in CountBytes
    /\ usize_res = NotYet
    /\ t_bytes = <<>>
    /\ t_res = NotYet

\* decompress_usize(&bytes).
DecompressUsizeBytes ==
    /\ usize_res.res = "NotYet"
    /\ usize_res' = decompress_usize(usize_bytes)
    /\ UNCHANGED <<count, usize_bytes, t_bytes, t_res, codecVars, lenVars, legacyVars,
                   seriesVars,
                   cursorVars,
                   sinkVars>>

SpecCountDecode == InitCountDecode /\ [][DecompressUsizeBytes]_vars

----------------------------------------------------------------------------
(* The tests of the 128-bit integers (serde_binary_adv.rs tests::test_u128 *)
(* and test_i128, stream.rs tests::test_u128 and test_i128): a value is    *)
(* encoded, and its 16 bytes in the byte order are decoded.                *)

Init128 ==
    /\ T \in WideKinds
    /\ test_value \in ValuesOf(T)
    /\ be \in BOOLEAN
    /\ serialized = NotYet
    /\ input = IF be THEN to_be_bytes(test_value, NumWidth(T))
               ELSE to_le_bytes(test_value, NumWidth(T))
    /\ undersized = FALSE
    /\ deserialized = NotYet
    /\ written = NotYet
    /\ read = NotYet
    /\ IdleCount
    /\ IdleLen
    /\ IdleLegacy
    /\ IdleSink
    /\ IdleCursor
    /\ IdleSeries

\* Serializer::to_bytes(&value, big_endian).
ToBytes128 ==
    /\ serialized.res = "NotYet"
    /\ serialized' = to_bytes(T, test_value, be)
    /\ UNCHANGED <<T, test_value, be, input, undersized, deserialized, written,
                   read, countVars, lenVars, legacyVars,
                   seriesVars,
                   cursorVars,
                   sinkVars>>

Next128 == ToBytes128 \/ DecodeBuffered \/ WriteBytes \/ ReadBytes

Spec128 == Init128 /\ [][Next128]_vars

----------------------------------------------------------------------------
(* serdebinaryadv/: the option-driven Serializer and Deserializer, which   *)
(* lib.rs does not declare as a module.  They are modelled as written, for *)
(* a bool under Options whose endianness is Little or Big.                 *)

Eof == BinaryError("Eof", 0, 0, <<>>, "")

\* Raw::from: the input, and offset 0.
Raw_from(data) == [data |-> data, offset |-> 0]

\* Raw::next: Eof on empty data; otherwise offset is advanced first and
\* data[offset] is indexed after it (0-based), which panics out of bounds.
Raw_next(raw) ==
    IF Len(raw.data) < 1
    THEN Err(Eof, raw)
    ELSE LET moved == [raw EXCEPT !.offset = @ + 1]
         IN  IF moved.offset >= Len(moved.data)
             THEN Panic(moved)
             ELSE Ok(moved.data[moved.offset + 1], moved)

\* Raw::peek: Eof on empty data; otherwise data[offset + 1] is indexed
\* (0-based), which panics out of bounds.
Raw_peek(raw) ==
    IF Len(raw.data) < 1
    THEN Err(Eof, raw)
    ELSE IF raw.offset + 1 >= Len(raw.data)
    THEN Panic(raw)
    ELSE Ok(raw.data[raw.offset + 2], raw)

\* Raw::take: Eof when data, read or not, is shorter than n; otherwise
\* offset is advanced by n and data[0..n] is returned.
Raw_take(raw, n) ==
    IF Len(raw.data) < n
    THEN Err(Eof, raw)
    ELSE Ok(SubSeq(raw.data, 1, n), [raw EXCEPT !.offset = @ + n])

\* visitor.visit_bool(self.raw.next().unwrap() == 0x00)
legacy_deserialize_bool(raw) ==
    Then(unwrap(Raw_next(raw)), LAMBDA r : Ok(r.val = 0, r.rest))

\* from_bytes::<bool>(s, options): the value alone is returned.
legacy_from_bytes(s) ==
    [legacy_deserialize_bool(Raw_from(s)) EXCEPT !.rest = <<>>]

\* Serializer::serialize_num: the bytes of v in the order of the options.
legacy_serialize_num(output, bits, w, endianness) ==
    IF endianness = "Big"
    THEN Ok(output \o to_be_bytes(bits, w), <<>>)
    ELSE Ok(output \o to_le_bytes(bits, w), <<>>)

\* self.serialize_num(if v { 1 } else { 0 }): the literal is an i32.
legacy_serialize_bool(output, v, endianness) ==
    legacy_serialize_num(output, IF v THEN {0} ELSE {}, 4, endianness)

\* to_bytes(&value, options) of a bool.
legacy_to_bytes(value, endianness) == legacy_serialize_bool(<<>>, value, endianness)

----------------------------------------------------------------------------
(* A bool through the three pairs of encoder and decoder: the value is     *)
(* encoded by each encoder, and bytes of any content are decoded by each   *)
(* decoder.                                                                *)

BoolBytes == {0, 1, 2, 128, 255}

InitBool ==
    /\ T = "bool"
    /\ test_value \in BOOLEAN
    /\ be \in BOOLEAN
    /\ serialized = NotYet
    /\ input \in {<<b>> : b \in 0..255} \cup
                 {<<b0, b1>> : b0 \in BoolBytes, b1 \in BoolBytes}
    /\ undersized = FALSE
    /\ deserialized = NotYet
    /\ written = NotYet
    /\ read = NotYet
    /\ IdleCount
    /\ IdleLen
    /\ IdleLegacy
    /\ IdleSink
    /\ IdleCursor
    /\ IdleSeries

\* serdebinaryadv::to_bytes(&test_value, options).
LegacyToBytes ==
    /\ legacy_serialized.res = "NotYet"
    /\ legacy_serialized' = legacy_to_bytes(test_value, IF be THEN "Big" ELSE "Little")
    /\ UNCHANGED <<legacy_deserialized, countVars, codecVars, lenVars,
                   seriesVars,
                   cursorVars,
                   sinkVars>>

\* serdebinaryadv::from_bytes::<bool>(&input, options).
LegacyFromBytes ==
    /\ legacy_deserialized.res = "NotYet"
    /\ legacy_deserialized' = legacy_from_bytes(input)
    /\ UNCHANGED <<legacy_serialized, countVars, codecVars, lenVars,
                   seriesVars,
                   cursorVars,
                   sinkVars>>

NextBool ==
    \/ ToBytes128
    \/ WriteBytes
    \/ DecodeBuffered
    \/ DecodeStream
    \/ LegacyToBytes
    \/ LegacyFromBytes

SpecBool == InitBool /\ [][NextBool]_vars

----------------------------------------------------------------------------
(* Unit-variant frames of any index: the flag 0xFE and a 32-bit index in   *)
(* the byte order of the decoders, for the schema TestEnum; the encoders   *)
(* write the schema's unit variant.                                        *)

\* The largest of the small indices tried; TestEnum has four variants.
MaxIndex == 5

\* Indices as 32-bit values: the small ones, one in each higher byte, and
\* the largest.
IndexSamples ==
    {BitsOf(i) : i \in 0..MaxIndex} \cup {{8}, {16}, {24}, {31}, 0..31}

UnitFrame(index, big_endian) ==
    <<UNIT_VARIANT>> \o
        (IF big_endian THEN to_be_bytes(index, 4) ELSE to_le_bytes(index, 4))

InitIndex ==
    /\ T = "TestEnum"
    /\ test_value \in {v \in ValuesOf(T) : TestEnumVariants[v.idx + 1].vk = "unit"}
    /\ be \in BOOLEAN
    /\ serialized = NotYet
    /\ input \in {UnitFrame(index, be) : index \in IndexSamples}
    /\ undersized = FALSE
    /\ deserialized = NotYet
    /\ written = NotYet
    /\ read = NotYet
    /\ IdleCount
    /\ IdleLen
    /\ IdleLegacy
    /\ IdleSink
    /\ IdleCursor
    /\ IdleSeries

NextIndex == ToBytes128 \/ WriteBytes \/ DecodeBuffered \/ DecodeStream

SpecIndex == InitIndex /\ [][NextIndex]_vars

----------------------------------------------------------------------------
(* A BinarySeries under a sequence of requests, over either Deserializer:  *)
(* next_element_seed, next_key_seed and next_value_seed in any order, the  *)
(* elements being u8.                                                      *)

\* The most requests for an element or a key made of one BinarySeries.
MaxRequests == 6

\* The longest input left to the Deserializer when the series is made.
MaxSeriesData == 3

\* The counts a series is made with: 0 to 3, and usize::MAX.
SeriesCounts == {BitsOf(k) : k \in 0..3} \cup {0..(UsizeBits - 1)}

\* `self.len + 1` in next_element_seed and next_key_seed, r being what the
\* call returns when the sum is formed.  With len = usize::MAX the sum
\* overflows: a panic in a build with overflow checks (the dev and test
\* profiles); in a build without, it wraps to 0, which no position equals,
\* and no position is greater than len either, so an element is decoded.
len_plus_one(len, overflow_checks, data, r) ==
    IF overflow_checks /\ len = 0..(UsizeBits - 1) THEN Panic(data) ELSE r

InitSeries ==
    /\ series_de \in
           [streaming : BOOLEAN,
            data : UNION {[1..n -> {65, 66}] : n \in 0..MaxSeriesData},
            overflow_checks : BOOLEAN]
    /\ \E k \in SeriesCounts :
           /\ series_state = BinarySeries(ToNat(k))
           /\ series_log = [kind |-> "none", before |-> <<>>, requests |-> 0,
                            yielded |-> 0, count |-> k]
    /\ series_res = NotYet
    /\ IdleCount
    /\ IdleCodec
    /\ IdleLen
    /\ IdleLegacy
    /\ IdleSink
    /\ IdleCursor

\* What a request for an element or a key leaves, series_res' being what
\* it returned: self.position += 1 comes first, whatever is returned.
Requested(kind) ==
    /\ series_de' = [series_de EXCEPT !.data = series_res'.rest]
    /\ series_state' = advance(series_state)
    /\ series_log' =
           [series_log EXCEPT
               !.kind = kind,
               !.before = series_de.data,
               !.requests = @ + 1,
               !.yielded = IF series_res'.res = "Ok" /\ series_res'.val # None
                           THEN @ + 1 ELSE @]
    /\ UNCHANGED <<countVars, codecVars, lenVars, legacyVars,
                   cursorVars,
                   sinkVars>>

\* series.next_element_seed(PhantomData::<u8>).
NextElementSeed ==
    /\ series_res.res # "Panic"
    /\ series_log.requests < MaxRequests
    /\ series_res' =
           len_plus_one(series_log.count, series_de.overflow_checks,
                        series_de.data,
                        next_element_seed(series_de.streaming, series_state,
                                          "u8", series_de.data, FALSE))
    /\ Requested("element")

\* series.next_key_seed(PhantomData::<u8>).
NextKeySeed ==
    /\ series_res.res # "Panic"
    /\ series_log.requests < MaxRequests
    /\ series_res' =
           len_plus_one(series_log.count, series_de.overflow_checks,
                        series_de.data,
                        next_key_seed(series_de.streaming, series_state,
                                      "u8", series_de.data, FALSE))
    /\ Requested("key")

\* series.next_value_seed(PhantomData::<u8>).
NextValueSeed ==
    /\ series_res.res # "Panic"
    /\ series_res' = next_value_seed(series_de.streaming, series_state, "u8",
                                     series_de.data, FALSE)
    /\ series_de' = [series_de EXCEPT !.data = series_res'.rest]
    /\ series_log' = [series_log EXCEPT !.kind = "value",
                                        !.before = series_de.data]
    /\ UNCHANGED <<series_state, countVars, codecVars, lenVars, legacyVars,
                   cursorVars,
                   sinkVars>>

NextSeries == NextElementSeed \/ NextKeySeed \/ NextValueSeed

SpecSeries == InitSeries /\ [][NextSeries]_vars

----------------------------------------------------------------------------
(* The buffered Deserializer's cursor under any sequence of peek, next and  *)
(* take calls.                                                             *)

\* The longest input of the cursor, and the largest len given to take.
MaxCursorLen == 4
MaxTake == 5

InitCursor ==
    /\ cursor \in UNION {[1..n -> {0, 65, 255}] : n \in 0..MaxCursorLen}
    /\ cursor_res = NotYet
    /\ cursor_log = [op |-> "none", n |-> 0, before |-> cursor]
    /\ IdleCount
    /\ IdleCodec
    /\ IdleLen
    /\ IdleLegacy
    /\ IdleSink
    /\ IdleSeries

\* What a call leaves, cursor_res' being what it returned.
Called(op, n) ==
    /\ cursor' = cursor_res'.rest
    /\ cursor_log' = [op |-> op, n |-> n, before |-> cursor]
    /\ UNCHANGED <<countVars, codecVars, lenVars, legacyVars, seriesVars,
                   sinkVars>>

\* self.peek().
Peek ==
    /\ cursor_res' = peek(cursor)
    /\ Called("peek", 0)

\* self.next().
NextByte ==
    /\ cursor_res' = next(cursor)
    /\ Called("next", 1)

\* self.take(len).
Take ==
    \E len \in 0..MaxTake :
        /\ cursor_res' = take(cursor, len)
        /\ Called("take", len)

NextCursor == Peek \/ NextByte \/ Take

SpecCursor == InitCursor /\ [][NextCursor]_vars

----------------------------------------------------------------------------
(* Decoding an encoding that is followed by other bytes: the value is      *)
(* encoded, bytes are appended to the encoding, and the whole is given to  *)
(* the buffered Deserializer.                                              *)

\* The longest sequence of bytes appended, other than a second encoding.
MaxTrailing == 2

\* What is appended: any bytes from {0x00, 0x41, 0xFF}, or the encoding
\* once more (the value encoded twice, back to back).
Trailing ==
    UNION {[1..n -> {0, 65, 255}] : n \in 1..MaxTrailing} \cup {serialized.val}

\* serialized.extend(trailing).
AppendTrailing ==
    /\ serialized.res = "Ok"
    /\ deserialized.res = "NotYet"
    /\ input = serialized.val
    /\ \E t \in Trailing : input' = input \o t
    /\ UNCHANGED <<T, test_value, be, serialized, undersized, deserialized,
                   written, read, countVars, lenVars, legacyVars, seriesVars,
                   cursorVars,
                   sinkVars>>

NextTrailing == ToBytes \/ AppendTrailing \/ FromBytes

SpecTrailing == Init /\ [][NextTrailing]_vars

----------------------------------------------------------------------------
(* stream/ser.rs over a sink that need not take all it is offered: the     *)
(* fixed-width integers, each of which is one write to the sink.           *)

\* <dyn Write>::write(buf) of the sink: an error, or the count of bytes
\* taken, which are the first of buf and at most sink.accept.
sink_write(s, buf) ==
    IF s.fails THEN Err(Message("write failed"), s)
    ELSE IF Len(buf) <= s.accept
    THEN Ok(Len(buf), [s EXCEPT !.content = @ \o buf])
    ELSE Ok(s.accept, [s EXCEPT !.content = @ \o SubSeq(buf, 1, s.accept)])

\* Serializer::write: self.output.write(data.as_slice()).unwrap(); the
\* count returned is dropped.
sink_stream_write(s, data) ==
    Then(unwrap(sink_write(s, data)), LAMBDA r : Ok(<<>>, r.rest))

\* Serializer::serialize_num, and write_bytes of a fixed-width integer.
sink_serialize_num(s, bits, w, big_endian) ==
    IF big_endian
    THEN sink_stream_write(s, to_be_bytes(bits, w))
    ELSE sink_stream_write(s, to_le_bytes(bits, w))

sink_write_bytes(s, ty, value, big_endian) ==
    sink_serialize_num(s, value, NumWidth(ty), big_endian)

\* The most bytes a sink takes of one write: 16 is all of any integer.
SinkAccepts == {0, 1, 2, 3, 16}

InitSink ==
    /\ T \in NumKinds \cup WideKinds
    /\ test_value \in ValuesOf(T)
    /\ be \in BOOLEAN
    /\ serialized = NotYet
    /\ input = <<>>
    /\ undersized = FALSE
    /\ deserialized = NotYet
    /\ written = NotYet
    /\ read = NotYet
    /\ sink \in [content : {<<>>}, accept : SinkAccepts, fails : BOOLEAN]
    /\ sink_res = NotYet
    /\ IdleCount
    /\ IdleLen
    /\ IdleLegacy
    /\ IdleSeries
    /\ IdleCursor

\* Serializer::write_bytes(&mut sink, &test_value, big_endian).
WriteBytesSink ==
    /\ sink_res.res = "NotYet"
    /\ sink_res' = sink_write_bytes(sink, T, test_value, be)
    /\ sink' = sink_res'.rest
    /\ UNCHANGED <<countVars, codecVars, lenVars, legacyVars, seriesVars,
                   cursorVars>>

SpecSink == InitSink /\ [][WriteBytesSink]_vars

----------------------------------------------------------------------------
(* serdebinaryadv/bytes.rs: a Raw under any sequence of peek, next and     *)
(* take calls.                                                             *)

\* No call is made of a Raw whose offset is MaxOffset or more.
MaxOffset == 6

InitRaw ==
    /\ \E data \in UNION {[1..n -> {0, 65, 255}] : n \in 0..MaxCursorLen} :
           cursor = Raw_from(data)
    /\ cursor_res = NotYet
    /\ cursor_log = [op |-> "none", n |-> 0, before |-> cursor]
    /\ IdleCount
    /\ IdleCodec
    /\ IdleLen
    /\ IdleLegacy
    /\ IdleSeries
    /\ IdleSink

\* raw.peek().
RawPeek ==
    /\ cursor_res.res # "Panic"
    /\ cursor.offset < MaxOffset
    /\ cursor_res' = Raw_peek(cursor)
    /\ Called("peek", 0)

\* raw.next().
RawNext ==
    /\ cursor_res.res # "Panic"
    /\ cursor.offset < MaxOffset
    /\ cursor_res' = Raw_next(cursor)
    /\ Called("next", 1)

\* raw.take(n).
RawTake ==
    /\ cursor_res.res # "Panic"
    /\ cursor.offset < MaxOffset
    /\ \E n \in 0..MaxTake :
           /\ cursor_res' = Raw_take(cursor, n)
           /\ Called("take", n)

NextRaw == RawPeek \/ RawNext \/ RawTake

SpecRaw == InitRaw /\ [][NextRaw]_vars

----------------------------------------------------------------------------
(* The properties checked of the state machines above.                     *)

\* The lead ranges of deserialize_char and the length each stands for.
CharLength(lead) ==
    IF lead \in 0..127 THEN 1
    ELSE IF lead \in 192..223 THEN 2
    ELSE IF lead \in 224..239 THEN 3
    ELSE IF lead \in 240..255 THEN 4
    ELSE 0

(* C1: for every value of a shape other than an enum and each byte order,  *)
(* from_bytes of what to_bytes returned, in the same byte order, is Ok of  *)
(* the value.                                                              *)
C1_BufferedRoundTrip ==
    (T # "TestEnum" /\ ~undersized /\ deserialized.res # "NotYet") =>
        /\ deserialized.res = "Ok"
        /\ deserialized.val = test_value

\* A map of two entries has gone through to_bytes and from_bytes, big-endian.
C1_Witness ==
    /\ T = "HashMap<String, char>"
    /\ Len(test_value) = 2
    /\ be
    /\ ~undersized
    /\ deserialized.res = "Ok"

(* C2: for every newtype-variant, tuple-variant and struct-variant value   *)
(* and each byte order, from_bytes of what to_bytes returned is Ok of the  *)
(* value.                                                                  *)
C2_VariantRoundTrip ==
    (T = "TestEnum" /\ test_value.idx \in 0..2 /\ ~undersized
        /\ deserialized.res # "NotYet") =>
        /\ deserialized.res = "Ok"
        /\ deserialized.val = test_value

(* C3: decoding a non-empty buffered encoding without its last byte, as    *)
(* the same type in the same byte order, returns Err of                    *)
(* UnexpectedEndOfInput, InvalidLength or InvalidBytes: no panic, no value.*)
C3_TruncationRejected ==
    (undersized /\ deserialized.res # "NotYet") =>
        /\ deserialized.res = "Err"
        /\ deserialized.err.kind \in
               {"UnexpectedEndOfInput", "InvalidLength", "InvalidBytes"}

(* C4: decoding no bytes at all as any type but the unit shapes returns    *)
(* Err(UnexpectedEndOfInput), from the buffered and from the streaming     *)
(* Deserializer.                                                           *)
C4_EmptyInput ==
    (input = <<>> /\ T \notin {"unit", "Unit"}) =>
        /\ deserialized.res # "NotYet" =>
               deserialized.res = "Err" /\ deserialized.err = UnexpectedEndOfInput
        /\ read.res # "NotYet" =>
               read.res = "Err" /\ read.err = UnexpectedEndOfInput

(* C5: for every count n in 0 .. 2^64 - 1, decompress_usize(compress_usize *)
(* (n)) is Ok(n), and compress_usize(n) is one byte long exactly when      *)
(* n <= 127.                                                               *)
C5_CountRoundTrip ==
    /\ usize_bytes # <<>> =>
           (Len(usize_bytes) = 1 <=> count \subseteq 0..6)
    /\ usize_res.res # "NotYet" =>
           usize_res.res = "Ok" /\ usize_res.val = count

\* A count of more than 127 has been compressed, to nine bytes, and
\* decompressed.
C5_Witness ==
    /\ usize_res.res # "NotYet"
    /\ ~(count \subseteq 0..6)
    /\ Len(usize_bytes) = 9

(* C6: for every v in 0 ..= u64::MAX, decompress(compress(v)) returns      *)
(* Ok(v) without panicking.                                                *)
C6_GenericRoundTrip ==
    t_res.res # "NotYet" => t_res.res = "Ok" /\ t_res.val = count

(* C7: serialize_seq and serialize_map called with len = None return Err   *)
(* to the caller, on the buffered and on the streaming Serializer: they do *)
(* not panic.                                                              *)
C7_UnknownLenRejected ==
    seq_len = None =>
        /\ seq_res.res # "NotYet" => seq_res.res = "Err"
        /\ map_res.res # "NotYet" => map_res.res = "Err"
        /\ stream_seq_res.res # "NotYet" => stream_seq_res.res = "Err"
        /\ stream_map_res.res # "NotYet" => stream_map_res.res = "Err"

(* C8: for every char and each byte order, read_bytes over exactly the     *)
(* bytes write_bytes wrote for it returns Ok of the char.                  *)
C8_StreamCharRoundTrip ==
    (T = "char" /\ read.res # "NotYet") =>
        /\ read.res = "Ok"
        /\ read.val = test_value

(* C9: a char decoded from bytes that go on after it has taken exactly the *)
(* number of bytes its lead stands for (1, 2, 3 or 4) in either            *)
(* Deserializer: the byte after them is left unread.                       *)
C9_CharDecodeLength ==
    (T = "char" /\ input # <<>> /\ CharLength(input[1]) \in 1..(Len(input) - 1)) =>
        /\ deserialized.res = "Ok" =>
               deserialized.rest =
                   SubSeq(input, CharLength(input[1]) + 1, Len(input))
        /\ read.res = "Ok" =>
               read.rest = SubSeq(input, CharLength(input[1]) + 1, Len(input))

(* C10: decoding a char from bytes whose lead is in 0x80..=0xBF returns    *)
(* Err(InvalidBytes), from the buffered and from the streaming             *)
(* Deserializer.                                                           *)
C10_ContinuationLeadRejected ==
    (T = "char" /\ input # <<>> /\ input[1] \in 128..191) =>
        /\ deserialized.res # "NotYet" =>
               deserialized.res = "Err" /\ deserialized.err = InvalidBytes
        /\ read.res # "NotYet" =>
               read.res = "Err" /\ read.err = InvalidBytes

\* Both Deserializers have been given 0xBF 0xA0 to decode a char from.
C10_Witness ==
    /\ T = "char"
    /\ input = <<191, 160>>
    /\ deserialized.res = "Err"
    /\ read.res = "Err"

(* C11: decoding a char whose lead is in 0xC0..=0xFF and whose collected   *)
(* bytes (as many as the decoder takes for that lead) are not valid UTF-8  *)
(* returns Err(InvalidBytes), from the buffered and from the streaming     *)
(* Deserializer: no panic, no other error.                                 *)
C11_MalformedCharRejected ==
    (T = "char" /\ input # <<>> /\ input[1] \in 192..255) =>
        /\ (/\ deserialized.res # "NotYet"
            /\ Len(input) >= char_len(input[1])
            /\ ~from_utf8_ok(SubSeq(input, 1, char_len(input[1])))) =>
               deserialized.res = "Err" /\ deserialized.err = InvalidBytes
        /\ (/\ read.res # "NotYet"
            /\ Len(input) >= 1 + stream_char_len(input[1])
            /\ ~from_utf8_ok(SubSeq(input, 1, 1 + stream_char_len(input[1])))) =>
               read.res = "Err" /\ read.err = InvalidBytes

(* C12: when the leading 0xFF of the encoding of a Some(x) is replaced by  *)
(* a byte f that is neither 0x00 nor 0xFF, decoding the bytes as the       *)
(* Option returns Err(MissingOrInvalidFlag{actual: f, expected: 0xFF})     *)
(* from either Deserializer, and the payload after f is left unread.       *)
C12_OptionFlagChecked ==
    (/\ TypeDef(T).k = "option"
     /\ test_value # None
     /\ input # <<>>
     /\ input[1] \notin {NONE, SOME}
     /\ \/ serialized.res = "Ok" /\ Tail(input) = Tail(serialized.val)
        \/ written.res = "Ok" /\ Tail(input) = Tail(written.val)) =>
        /\ deserialized.res # "NotYet" =>
               /\ deserialized.res = "Err"
               /\ deserialized.err = MissingOrInvalidFlag(input[1], SOME)
               /\ deserialized.rest = Tail(input)
        /\ read.res # "NotYet" =>
               /\ read.res = "Err"
               /\ read.err = MissingOrInvalidFlag(input[1], SOME)
               /\ read.rest = Tail(input)

\* Both Deserializers have refused a Some(u64) whose flag was replaced by
\* 0x41.
C12_Witness ==
    /\ T = "Option<u64>"
    /\ test_value # None
    /\ input # <<>>
    /\ input[1] = 65
    /\ Len(input) = 9
    /\ deserialized.res = "Err"
    /\ read.res = "Err"

(* C13: the buffered Deserializer, decoding a struct from bytes whose      *)
(* first is not 0xFD, returns Err(MissingOrInvalidFlag{actual: that byte,  *)
(* expected: 0xFD}); from bytes that start with 0xFD and the encoding of   *)
(* another name, Err(InvalidName{actual: the name read, expected: the      *)
(* struct's name}).  Either way nothing after the flag, or after the name, *)
(* is read.                                                                *)
C13_StructVerified ==
    (TypeDef(T).k = "struct" /\ deserialized.res # "NotYet" /\ input # <<>>) =>
        /\ input[1] # STRUCT =>
               /\ deserialized.res = "Err"
               /\ deserialized.err = MissingOrInvalidFlag(input[1], STRUCT)
               /\ deserialized.rest = Tail(input)
        /\ \A n \in NameSamples :
               (/\ n # TypeDef(T).name
                /\ Len(input) >= 1 + Len(serialize_str(<<>>, n, be).val)
                /\ SubSeq(input, 1, 1 + Len(serialize_str(<<>>, n, be).val))
                       = <<STRUCT>> \o serialize_str(<<>>, n, be).val) =>
                   /\ deserialized.res = "Err"
                   /\ deserialized.err = InvalidName(n, TypeDef(T).name)
                   /\ deserialized.rest =
                          SubSeq(input, 2 + Len(serialize_str(<<>>, n, be).val),
                                 Len(input))

\* The buffered Deserializer has refused a Test whose name was replaced by
\* TestEnum.
C13_Witness ==
    /\ T = "Test"
    /\ input # <<>>
    /\ input[1] = STRUCT
    /\ deserialized.res = "Err"
    /\ deserialized.err = InvalidName(Name.TestEnum, Name.Test)

(* C14: decoding an enum from bytes whose first is none of 0xFE, 0xFD and  *)
(* 0xFC returns Err(MissingOrInvalidFlag) from the buffered and from the   *)
(* streaming Deserializer, and nothing after that byte is read: no variant *)
(* is looked up.                                                           *)
C14_EnumFlagChecked ==
    (/\ TypeDef(T).k = "enum"
     /\ input # <<>>
     /\ input[1] \notin {UNIT_VARIANT, NONUNIT_VARIANT, STRUCT_VARIANT}) =>
        /\ deserialized.res # "NotYet" =>
               /\ deserialized.res = "Err"
               /\ deserialized.err.kind = "MissingOrInvalidFlag"
               /\ deserialized.rest = Tail(input)
        /\ read.res # "NotYet" =>
               /\ read.res = "Err"
               /\ read.err.kind = "MissingOrInvalidFlag"
               /\ read.rest = Tail(input)

\* The length field of a count's second byte: k = (byte1 >> 5) & 7.
ExtraBytes(bytes) == (bytes[2] \div 32) % 8

\* The bytes decompress_usize has to be given, by the first two of them.
CountLength(bytes) ==
    IF Len(bytes) = 0 THEN 1
    ELSE IF bytes[1] < 128 THEN 1
    ELSE IF Len(bytes) < 2 THEN 2
    ELSE ExtraBytes(bytes) + 2

(* C15: decompress_usize returns Err(InvalidLength) for no bytes, for one  *)
(* byte with its high bit set, and for fewer than k + 2 bytes where k is   *)
(* the length field of the second byte; for any other input it returns a   *)
(* value, the one it returns for the first byte alone (high bit clear) or  *)
(* for the first k + 2 bytes alone: no byte after them is read.            *)
C15_CountDecodeErrors ==
    usize_res.res # "NotYet" =>
        IF Len(usize_bytes) < CountLength(usize_bytes)
        THEN /\ usize_res.res = "Err"
             /\ usize_res.err.kind = "InvalidLength"
        ELSE /\ usize_res.res = "Ok"
             /\ usize_res =
                    decompress_usize(SubSeq(usize_bytes, 1, CountLength(usize_bytes)))

\* decompress_usize has refused 0xFF 0xFF 0xFF: k is 7 and nine bytes are
\* needed.
C15_Witness ==
    /\ usize_bytes = <<255, 255, 255>>
    /\ usize_res.res = "Err"

(* C16: for every u128 and i128 value and each byte order, to_bytes        *)
(* returns Ok of the value's 16 bytes in that order, and from_bytes of     *)
(* those 16 bytes returns Ok of the value.                                 *)
C16_WideRoundTrip ==
    T \in WideKinds =>
        /\ serialized.res # "NotYet" =>
               /\ serialized.res = "Ok"
               /\ serialized.val = input
        /\ deserialized.res # "NotYet" =>
               /\ deserialized.res = "Ok"
               /\ deserialized.val = test_value

(* C17: for every value of the named struct and every value of the enum,   *)
(* of each kind of variant, and each byte order, read_bytes over exactly   *)
(* the bytes write_bytes wrote for it, in the same byte order, returns Ok  *)
(* of the value.                                                           *)
C17_StreamStructEnumRoundTrip ==
    (TypeDef(T).k \in {"struct", "enum"} /\ read.res # "NotYet") =>
        /\ read.res = "Ok"
        /\ read.val = test_value
        /\ read.rest = <<>>

\* A struct variant has gone through write_bytes and read_bytes,
\* big-endian.
C17_Witness ==
    /\ T = "TestEnum"
    /\ test_value.idx = 1
    /\ be
    /\ read.res = "Ok"
    /\ Len(written.val) = 8

\* The bytes given end inside a primitive read of the streaming
\* Deserializer: inside a fixed-width number or a bool, inside a String's
\* count or payload, or inside the u32 index that follows an enum's flag.
ShortRead ==
    CASE T \in NumKinds -> Len(input) < NumWidth(T)
      [] T = "bool" -> Len(input) < 1
      [] T = "String" ->
             \/ Len(input) < CountLength(input)
             \/ Len(input) - CountLength(input) <
                    ToNat(decompress_usize(
                              SubSeq(input, 1, CountLength(input))).val)
      [] TypeDef(T).k = "enum" ->
             /\ input # <<>>
             /\ input[1] \in {UNIT_VARIANT, NONUNIT_VARIANT, STRUCT_VARIANT}
             /\ Len(input) < 5
      [] OTHER -> FALSE

(* C18: when the bytes given to the streaming Deserializer end inside a    *)
(* primitive read (a single byte, a fixed-width number, the 32-bit variant *)
(* index, the bytes of a count, a string's payload), read_bytes returns    *)
(* Err(UnexpectedEndOfInput).                                              *)
C18_StreamShortRead ==
    (ShortRead /\ read.res # "NotYet") =>
        /\ read.res = "Err"
        /\ read.err = UnexpectedEndOfInput

\* C19: bool decoding.  Each of the three decoders (buffered, streaming and
\* the option-driven one of serdebinaryadv) maps the byte 0x00 to false and
\* every other byte to true, and each encoder writes true as the one byte
\* 0x01 and false as the one byte 0x00.
C19_BoolMapping ==
    T = "bool" /\ input # <<>> =>
        /\ \A r \in {deserialized, read, legacy_deserialized} :
               r.res # "NotYet" => r.res = "Ok" /\ r.val = (input[1] # 0)
        /\ \A w \in {serialized, written, legacy_serialized} :
               w.res # "NotYet" =>
                   w.res = "Ok" /\ w.val = <<IF test_value THEN 1 ELSE 0>>

\* A type whose encoding holds a fixed-width number of two bytes or more:
\* such a number itself, an enum (its 32-bit variant index), or a type with
\* such an element.
RECURSIVE OrderDependent(_)
OrderDependent(ty) ==
    LET t == TypeDef(ty)
    IN  \/ t.k \in NumKinds \cup WideKinds /\ NumWidth(t.k) >= 2
        \/ t.k = "enum"
        \/ \E i \in 1..Len(t.elems) : OrderDependent(t.elems[i])

\* What holds of the bytes enc an encoder wrote for test_value and the bytes
\* other it writes under the other byte order.
SameButOrder(enc, other) ==
    /\ other.res = "Ok"
    /\ Len(other.val) = Len(enc.val)
    /\ ~OrderDependent(T) => other.val = enc.val
    /\ TypeDef(T).k = "option" =>
           /\ other.val[1] = enc.val[1]
           /\ test_value = <<>> => other.val = enc.val
    /\ T \in NumKinds /\ NumWidth(T) >= 2 => other.val = Reverse(enc.val)

\* C20: endianness independence.  What either encoder writes for a value
\* made of counts, characters, strings (length prefix and UTF-8 bytes),
\* single bytes and discriminator bytes alone is the same under both byte
\* orders; an Option's flag and the streaming encoder's variant flag are
\* the same under both; a fixed-width number of two bytes or more is
\* written in reverse under the other order, and so is the 32-bit variant
\* index after the streaming encoder's flag, the bytes after it unchanged.
C20_OrderIndependence ==
    /\ serialized.res = "Ok" =>
           SameButOrder(serialized, to_bytes(T, test_value, ~be))
    /\ written.res = "Ok" =>
           LET other == write_bytes(T, test_value, ~be)
           IN  /\ SameButOrder(written, other)
               /\ T = "TestEnum" =>
                      /\ other.val[1] = written.val[1]
                      /\ SubSeq(other.val, 2, 5) =
                             Reverse(SubSeq(written.val, 2, 5))
                      /\ SubSeq(other.val, 6, Len(other.val)) =
                             SubSeq(written.val, 6, Len(written.val))

\* Both encoders have written, big-endian, a String whose count takes two
\* bytes.
C20_Witness ==
    /\ T = "String"
    /\ Len(test_value) = LongLen
    /\ be
    /\ serialized.res = "Ok"
    /\ written.res = "Ok"
    /\ Len(serialized.val) = LongLen + 2

\* C21: unit-variant framing.  For a unit variant of index i both encoders
\* write exactly 0xFE and then i as a 32-bit integer in the configured byte
\* order, and both decoders, given those bytes and the schema, return that
\* variant with nothing left unread.
C21_UnitVariantFrame ==
    T = "TestEnum" /\ TestEnumVariants[test_value.idx + 1].vk = "unit" =>
        LET frame == UnitFrame(BitsOf(test_value.idx), be)
        IN  /\ \A enc \in {serialized, written} :
                   enc.res # "NotYet" => enc.res = "Ok" /\ enc.val = frame
            /\ input = frame =>
                   \A dec \in {deserialized, read} :
                       dec.res # "NotYet" => dec = Ok(test_value, <<>>)

\* Both encoders have written the unit variant big-endian, and both
\* decoders have decoded FE 00 00 00 03.
C21_Witness ==
    /\ T = "TestEnum"
    /\ be
    /\ input = <<254, 0, 0, 0, 3>>
    /\ serialized.res = "Ok" /\ serialized.val = input
    /\ written.res = "Ok" /\ written.val = input
    /\ deserialized.res = "Ok"
    /\ read.res = "Ok"
    /\ read.val = test_value

\* The index a unit-variant frame holds, read in the byte order in use.
FrameIndex(frame, big_endian) ==
    ToNat(IF big_endian THEN from_be_bytes(SubSeq(frame, 2, 5))
          ELSE from_le_bytes(SubSeq(frame, 2, 5)))

\* C28: variant index bound.  Decoding a unit-variant frame whose index is
\* the number of variants of the schema or more returns an error through
\* the result, in both decoders: no panic.
C28_IndexBound ==
    T = "TestEnum" /\ Len(input) = 5 /\ input[1] = UNIT_VARIANT
        /\ FrameIndex(input, be) >= Len(TestEnumVariants) =>
            \A dec \in {deserialized, read} :
                dec.res # "NotYet" => dec.res = "Err"

\* C22: buffered struct framing.  For the struct Test { byte, string } the
\* buffered encoder writes exactly 0xFD, the count of the name's bytes and
\* the name, the count of fields, and then each field's encoding in the
\* declared order (the byte; the string as its count and its bytes): no
\* field name is written.
C22_StructFrame ==
    T = "Test" /\ serialized.res # "NotYet" =>
        /\ serialized.res = "Ok"
        /\ serialized.val =
               <<253>> \o compress_usize(BitsOf(Len(Name.Test))) \o Name.Test
                   \o compress_usize(BitsOf(2))
                   \o <<Byte(test_value[1])>>
                   \o compress_usize(BitsOf(Len(test_value[2]))) \o test_value[2]

\* Test { byte: 0x41, string: "test" } encoded big-endian:
\* FD 04 'Test' 02 41 04 'test'.
C22_Witness ==
    /\ T = "Test"
    /\ be
    /\ test_value = <<{0, 6}, Str.test>>
    /\ serialized.res = "Ok"
    /\ serialized.val = <<253, 4, 84, 101, 115, 116, 2, 65, 4, 116, 101, 115, 116>>

\* A struct variant's frame as the buffered encoder is to write it, name
\* being the name written after the flag: 0xFC, the name as a string, the
\* 32-bit index in the byte order, the count of fields, each field's byte.
StructVariantFrame(name, value, big_endian) ==
    <<252>> \o compress_usize(BitsOf(Len(name))) \o name
        \o (IF big_endian THEN to_be_bytes(BitsOf(value.idx), 4)
            ELSE to_le_bytes(BitsOf(value.idx), 4))
        \o compress_usize(BitsOf(Len(value.fields)))
        \o [i \in 1..Len(value.fields) |-> Byte(value.fields[i])]

\* C23: buffered struct-variant framing.  For a struct variant the buffered
\* encoder writes exactly 0xFC, the variant's name as a string, the
\* variant's 32-bit index in the configured byte order, the count of fields
\* and each field's bytes in the declared order.
C23_StructVariantFrame ==
    T = "TestEnum" /\ TestEnumVariants[test_value.idx + 1].vk = "struct"
        /\ serialized.res # "NotYet" =>
            /\ serialized.res = "Ok"
            /\ serialized.val =
                   StructVariantFrame(TestEnumVariants[test_value.idx + 1].name,
                                      test_value, be)

\* The two shapes whose framing is documented to differ between the
\* encoders: a newtype or tuple variant, and a struct (its name).
DocumentedDivergence ==
    \/ TypeDef(T).k = "struct"
    \/ /\ TypeDef(T).k = "enum"
       /\ TestEnumVariants[test_value.idx + 1].vk \in {"newtype", "tuple"}

\* C24: streaming/buffered equivalence.  For a value of any other shape
\* than the two documented divergences, struct variants included, and the
\* same byte order, the streaming encoder writes to its sink exactly the
\* bytes the buffered encoder returns.
C24_StreamEqualsBuffered ==
    ~DocumentedDivergence /\ serialized.res # "NotYet" /\ written.res # "NotYet" =>
        /\ serialized.res = "Ok"
        /\ written.res = "Ok"
        /\ written.val = serialized.val

\* What a request is to return when it decodes an element from data.
ElementFrom(streaming, data) ==
    Then(seed_deserialize(streaming, "u8", data, FALSE), LAMBDA d :
        Ok(Some(d.val), d.rest))

\* C25: bounded element iterator.  A BinarySeries made with count k answers
\* each of the first k requests (for an element or a key) by decoding one
\* element, request k + 1 with None and nothing read, and every later
\* request with InvalidLength { actual: the request's number, expected: k },
\* nothing read; it yields at most k elements, and a request for a map
\* value leaves the position alone.
C25_BoundedSeries ==
    series_log.kind # "none" =>
        LET k == ToNat(series_log.count)
            n == series_log.requests
            before == series_log.before
        IN  /\ series_log.yielded <= k
            /\ series_state.position = n
            /\ series_log.kind \in {"element", "key"} =>
                   /\ n <= k =>
                          series_res = ElementFrom(series_de.streaming, before)
                   /\ n = k + 1 =>
                          series_res = Ok(None, before) /\ series_de.data = before
                   /\ n > k + 1 =>
                          /\ series_res = Err(InvalidLength(n, k), before)
                          /\ series_de.data = before

\* C26: buffered cursor discipline.  After any call the unread input is no
\* longer than before it.  peek leaves it as it was and returns its first
\* byte; next removes the first byte and returns it; take(n) removes the
\* first n bytes and returns them in order; with no byte left (peek, next)
\* or fewer than n (take) the call returns UnexpectedEndOfInput and leaves
\* the unread input as it was.
C26_CursorDiscipline ==
    cursor_log.op # "none" =>
        LET before == cursor_log.before
            n == cursor_log.n
        IN  /\ Len(cursor) <= Len(before)
            /\ cursor_log.op = "peek" =>
                   /\ cursor = before
                   /\ IF before = <<>>
                      THEN cursor_res.res = "Err" /\ cursor_res.err = UnexpectedEndOfInput
                      ELSE cursor_res.res = "Ok" /\ cursor_res.val = before[1]
            /\ cursor_log.op = "next" =>
                   IF before = <<>>
                   THEN /\ cursor_res.res = "Err"
                        /\ cursor_res.err = UnexpectedEndOfInput
                        /\ cursor = before
                   ELSE /\ cursor_res.res = "Ok"
                        /\ before = <<cursor_res.val>> \o cursor
            /\ cursor_log.op = "take" =>
                   IF Len(before) < n
                   THEN /\ cursor_res.res = "Err"
                        /\ cursor_res.err = UnexpectedEndOfInput
                        /\ cursor = before
                   ELSE /\ cursor_res.res = "Ok"
                        /\ Len(cursor_res.val) = n
                        /\ before = cursor_res.val \o cursor

\* take(2) has returned 00 41 of an input of four bytes, two being left.
C26_Witness ==
    /\ cursor_log.op = "take"
    /\ cursor_log.n = 2
    /\ Len(cursor_log.before) = 4
    /\ cursor_res.res = "Ok"
    /\ cursor_res.val = <<0, 65>>
    /\ Len(cursor) = 2

\* C27: exact consumption.  For a value whose buffered round trip succeeds,
\* decoding its encoding followed by any bytes returns the value and leaves
\* exactly those bytes unread; so from_bytes accepts input with bytes
\* after the value, and a second encoding after the first decodes to the
\* value again.
C27_ExactConsumption ==
    /\ serialized.res = "Ok"
    /\ deserialized.res # "NotYet"
    /\ from_bytes(T, serialized.val, be) = Ok(test_value, <<>>)
    /\ Len(input) >= Len(serialized.val)
    /\ SubSeq(input, 1, Len(serialized.val)) = serialized.val
    => /\ deserialized.res = "Ok"
       /\ deserialized.val = test_value
       /\ deserialized.rest = SubSeq(input, Len(serialized.val) + 1, Len(input))
       /\ deserialized.rest = serialized.val =>
              from_bytes(T, deserialized.rest, be) = Ok(test_value, <<>>)

\* Test { byte: 0x42, string: "test" } has been decoded from its encoding
\* followed by 00 FF, which are left unread.
C27_Witness ==
    /\ T = "Test"
    /\ test_value = <<{1, 6}, Str.test>>
    /\ serialized.res = "Ok"
    /\ input = serialized.val \o <<0, 255>>
    /\ deserialized.res = "Ok"
    /\ deserialized.val = test_value
    /\ deserialized.rest = <<0, 255>>

\* C29: streaming write completeness.  When write_bytes returns Ok the sink
\* has received every byte of the encoding, in order; when the sink takes
\* fewer bytes than a write offers, or the write fails, write_bytes returns
\* an error: no byte is dropped silently, and there is no panic.
C29_WriteComplete ==
    sink_res.res # "NotYet" =>
        LET encoding == IF be THEN to_be_bytes(test_value, NumWidth(T))
                        ELSE to_le_bytes(test_value, NumWidth(T))
        IN  /\ sink_res.res \in {"Ok", "Err"}
            /\ sink_res.res = "Ok" => sink.content = encoding
            /\ sink.fails \/ sink.accept < Len(encoding) => sink_res.res = "Err"

\* C30: legacy Raw cursor.  On a Raw whose calls so far have consumed m
\* bytes (its offset), peek returns data[m] and leaves the offset alone,
\* next returns data[m] and sets the offset to m + 1, take(n) returns
\* data[m..m+n] and sets the offset to m + n, and each returns Eof, with no
\* index outside data, when fewer bytes than it asks for are left after m.
C30_RawCursor ==
    cursor_log.op # "none" =>
        LET data == cursor_log.before.data
            m == cursor_log.before.offset
            n == cursor_log.n
            asked == IF cursor_log.op = "take" THEN n ELSE 1
        IN  /\ cursor_res.res \in {"Ok", "Err"}
            /\ cursor.data = data
            /\ IF m + asked > Len(data)
               THEN /\ cursor_res.res = "Err"
                    /\ cursor_res.err = Eof
                    /\ cursor.offset = m
               ELSE /\ cursor_res.res = "Ok"
                    /\ cursor_log.op = "peek" =>
                           cursor_res.val = data[m + 1] /\ cursor.offset = m
                    /\ cursor_log.op = "next" =>
                           cursor_res.val = data[m + 1] /\ cursor.offset = m + 1
                    /\ cursor_log.op = "take" =>
                           /\ cursor_res.val = SubSeq(data, m + 1, m + n)
                           /\ cursor.offset = m + n

====
